---- MODULE Spec2Model ----
(***************************************************************************)
(* MicroPather (micropather.cpp / micropather.h): the node pool with its   *)
(* hash table and adjacency cache, the sorted open list, the path cache    *)
(* and the two search drivers, Solve and SolveForNearStates.               *)
(*                                                                         *)
(* Conventions.  A state, a void pointer, is a positive integer and 0 is   *)
(* null.  A PathNode is named by its slot in the chain of blocks.  A       *)
(* float cost is a natural number; FLT_MAX is the infinite sentinel, and   *)
(* a float sum that reaches it rounds to it (FAdd).  The intrusive lists   *)
(* (open queue, free list, the closed list of SolveForNearStates) are      *)
(* sequences of slots from the head to the sentinel.  A failed             *)
(* assertExpression throws: the call is abandoned where it stands and the  *)
(* engine keeps whatever was written before (field failed).                *)
(*                                                                         *)
(* The client graph is simple: no state lists itself as a neighbour and    *)
(* no neighbour is listed twice.  PathCache::Item::Hash reads 16 bytes     *)
(* through the start pointer: the client's states are addresses of memory  *)
(* that can be read and that the client leaves as it is (stmem).           *)
(***************************************************************************)
EXTENDS Integers, Sequences, FiniteSets, TLC

FLT_MAX == 1000

hashShift == 3

NULL == 0

\* number of top-level calls (Solve, SolveForNearStates, Reset) in a behaviour
MaxCalls == 3

HashSize == 2 ^ hashShift

HashMask == (2 ^ hashShift) - 1

\* The client's states, as pointer values, in the order AdjacentCost lists
\* neighbours.  8 and 10 share a hash bucket with 1 and 3.
StateSeq == <<1, 2, 3, 8, 10>>

States == {StateSeq[i] : i \in 1..Len(StateSeq)}

VARIABLES
    wt,      \* the client graph: wt[a][b] is the cost of edge a -> b, -1 if none
    est,     \* the client heuristic: est[a][b] = LeastCostEstimate(a, b)
    dist,    \* true shortest distance over finite-cost edges (FLT_MAX if none)
    stmem,   \* hash of the 16 bytes of client memory a state points at
    mp,      \* the MicroPather object and the frame of the call in progress
    mu,      \* a second engine, built without path cache (SpecPair)
    ncalls,  \* top-level calls made so far
    budget,  \* top-level calls this behaviour may make
    goals,   \* the destinations the client asks paths to
    hist     \* the calls that have returned, oldest first (CallRecord)

vars == <<wt, est, dist, stmem, mp, mu, ncalls, budget, goals, hist>>

client == <<wt, est, dist, stmem, budget, goals>>

----------------------------------------------------------------------------
(* Float arithmetic on costs *)

FAdd(a, b) == IF a + b >= FLT_MAX THEN FLT_MAX ELSE a + b

----------------------------------------------------------------------------
(* Sequence helpers *)

RemoveAt(s, i) == [j \in 1..(Len(s) - 1) |-> IF j < i THEN s[j] ELSE s[j + 1]]

InsertAt(s, i, x) ==
    [j \in 1..(Len(s) + 1) |-> IF j < i THEN s[j] ELSE IF j = i THEN x ELSE s[j - 1]]

IndexOf(s, x) == CHOOSE i \in 1..Len(s) : s[i] = x

Min0(S) == CHOOSE x \in S : \A y \in S : x <= y

----------------------------------------------------------------------------
(* The client: Graph::AdjacentCost and Graph::LeastCostEstimate *)

RECURSIVE AdjFrom(_, _, _)
AdjFrom(w, s, i) ==
    IF i > Len(StateSeq) THEN <<>>
    ELSE LET t == StateSeq[i]
         IN  IF t # s /\ w[s][t] >= 0
             THEN <<[state |-> t, cost |-> w[s][t]]>> \o AdjFrom(w, s, i + 1)
             ELSE AdjFrom(w, s, i + 1)

AdjacentCost(s) == AdjFrom(wt, s, 1)

LeastCostEstimate(a, b) == est[a][b]

----------------------------------------------------------------------------
(* PathNode *)

ZeroNode ==
    [state |-> NULL, costFromStart |-> 0, estToGoal |-> 0, totalCost |-> 0,
     parent |-> NULL, frame |-> 0, numAdjacent |-> 0, cacheIndex |-> 0,
     child |-> <<NULL, NULL>>, inOpen |-> FALSE, inClosed |-> FALSE]

CalcTotalCost(n) ==
    [n EXCEPT !.totalCost =
        IF n.costFromStart < FLT_MAX /\ n.estToGoal < FLT_MAX
        THEN FAdd(n.costFromStart, n.estToGoal)
        ELSE FLT_MAX]

PathNodeInit(n, _frame, _state, _costFromStart, _estToGoal, _parent) ==
    [CalcTotalCost([n EXCEPT !.state = _state,
                             !.costFromStart = _costFromStart,
                             !.estToGoal = _estToGoal])
        EXCEPT !.parent = _parent, !.frame = _frame,
               !.inOpen = FALSE, !.inClosed = FALSE]

PathNodeClear == [ZeroNode EXCEPT !.numAdjacent = -1, !.cacheIndex = -1]

----------------------------------------------------------------------------
(* assertExpression: a failed assertion throws out of the call *)

Fail(m) == [m EXCEPT !.failed = TRUE]

----------------------------------------------------------------------------
(* PathNodePool *)

EmptyItem == [start |-> NULL, end |-> NULL, next |-> NULL, cost |-> 0]

\* NewBlock that chains the block without counting its records as available
NewBlockUncounted(m) ==
    [m EXCEPT !.nBlocks = @ + 1,
              !.rec = [i \in 1..((m.nBlocks + 1) * m.allocate) |->
                          IF i <= m.nBlocks * m.allocate THEN m.rec[i] ELSE ZeroNode],
              !.freeList = @ \o [i \in 1..m.allocate |-> m.nBlocks * m.allocate + i]]

NewBlock(m) ==
    [m EXCEPT !.nBlocks = @ + 1,
              !.rec = [i \in 1..((m.nBlocks + 1) * m.allocate) |->
                          IF i <= m.nBlocks * m.allocate THEN m.rec[i] ELSE ZeroNode],
              !.nAvailable = @ + m.allocate,
              !.freeList = @ \o [i \in 1..m.allocate |-> m.nBlocks * m.allocate + i]]

PoolClear(m) ==
    [m EXCEPT !.nBlocks = 1,
              !.rec = [i \in 1..m.allocate |-> m.rec[i]],
              !.freeList = IF m.nAllocated > 0 THEN [i \in 1..m.allocate |-> i] ELSE @,
              !.hashTable = IF m.nAllocated > 0 THEN [k \in 0..(HashSize - 1) |-> NULL] ELSE @,
              !.nAvailable = m.allocate,
              !.nAllocated = 0,
              !.cache = <<>>]

Hash(voidval) == voidval % HashMask

\* Alloc returns the engine and the node taken from the free list
AllocFrom(m) ==
    IF m.nAvailable <= 0
    THEN [m |-> Fail([m EXCEPT !.freeList = Tail(@), !.nAllocated = @ + 1]), node |-> NULL]
    ELSE [m |-> [m EXCEPT !.freeList = Tail(@),
                          !.nAllocated = @ + 1,
                          !.nAvailable = @ - 1],
          node |-> Head(m.freeList)]

Alloc(m) ==
    IF m.freeList = <<>>
    THEN IF m.nAvailable # 0 THEN [m |-> Fail(m), node |-> NULL]
         ELSE AllocFrom(NewBlock(m))
    ELSE AllocFrom(m)

RECURSIVE TreeInsert(_, _, _)
TreeInsert(rec, p, root) ==
    LET dir == IF rec[root].state < rec[p].state THEN 1 ELSE 2
    IN  IF rec[p].child[dir] # NULL
        THEN TreeInsert(rec, rec[p].child[dir], root)
        ELSE [rec EXCEPT ![p].child[dir] = root]

AddPathNode(m, key, root) ==
    IF m.hashTable[key] # NULL
    THEN [m EXCEPT !.rec = TreeInsert(m.rec, m.hashTable[key], root)]
    ELSE [m EXCEPT !.hashTable[key] = root]

RECURSIVE TreeFind(_, _, _)
TreeFind(rec, root, state) ==
    IF root = NULL THEN NULL
    ELSE IF rec[root].state = state THEN root
    ELSE TreeFind(rec, IF state < rec[root].state THEN rec[root].child[1]
                                                 ELSE rec[root].child[2], state)

\* FetchPathNode asserts that the state has a record
FetchPathNode(m, state) == TreeFind(m.rec, m.hashTable[Hash(state)], state)

\* GetPathNode, no record found: a is what Alloc returned
GetPathNodeNew(a, _frame, _state, _costFromStart, _estToGoal, _parent) ==
    IF a.m.failed THEN a
    ELSE [m |-> AddPathNode(
                   [a.m EXCEPT !.rec[a.node] =
                       PathNodeInit(PathNodeClear, _frame, _state,
                                    _costFromStart, _estToGoal, _parent)],
                   Hash(_state), a.node),
          node |-> a.node]

\* GetPathNodeAt that allocates a record for a state whose record is stale
GetPathNodeAtAgain(m, root, _frame, _state, _costFromStart, _estToGoal, _parent) ==
    IF root # NULL /\ m.rec[root].frame = _frame
    THEN [m |-> m, node |-> root]
    ELSE GetPathNodeNew(Alloc(m), _frame, _state, _costFromStart, _estToGoal, _parent)

\* GetPathNode, after the walk down the bucket's tree ended at root
GetPathNodeAt(m, root, _frame, _state, _costFromStart, _estToGoal, _parent) ==
    IF root # NULL
    THEN IF m.rec[root].frame = _frame
         THEN [m |-> m, node |-> root]
         ELSE [m |-> [m EXCEPT !.rec[root] =
                        PathNodeInit(@, _frame, _state, _costFromStart, _estToGoal, _parent)],
               node |-> root]
    ELSE GetPathNodeNew(Alloc(m), _frame, _state, _costFromStart, _estToGoal, _parent)

GetPathNode(m, _frame, _state, _costFromStart, _estToGoal, _parent) ==
    GetPathNodeAt(m, TreeFind(m.rec, m.hashTable[Hash(_state)], _state),
                  _frame, _state, _costFromStart, _estToGoal, _parent)

\* PushCache that stores as much of the list as there is room for
PushCacheTruncating(m, nodes) ==
    [m |-> [m EXCEPT !.cache = @ \o SubSeq(nodes, 1,
                                 IF m.cacheCap - Len(m.cache) < Len(nodes)
                                 THEN m.cacheCap - Len(m.cache) ELSE Len(nodes))],
     ok |-> TRUE, start |-> Len(m.cache)]

\* PushCache: nodes is a sequence of [node, cost]
PushCache(m, nodes) ==
    IF Len(nodes) + Len(m.cache) <= m.cacheCap
    THEN [m |-> [m EXCEPT !.cache = @ \o nodes], ok |-> TRUE, start |-> Len(m.cache)]
    ELSE [m |-> m, ok |-> FALSE, start |-> -1]

GetCacheOk(m, start, nNodes) ==
    /\ start >= 0 /\ start < m.cacheCap
    /\ nNodes > 0
    /\ start + nNodes <= m.cacheCap

GetCache(m, start, nNodes) == SubSeq(m.cache, start + 1, start + nNodes)

\* AllStates walks the blocks from the one chained last to the first block;
\* the j-th record it visits
BlockWalk(m, j) ==
    (m.nBlocks - 1 - ((j - 1) \div m.allocate)) * m.allocate + ((j - 1) % m.allocate) + 1

AllStates(m, _frame) ==
    [k \in 1..Len(SelectSeq([j \in 1..Len(m.rec) |-> BlockWalk(m, j)],
                            LAMBDA i : m.rec[i].frame = _frame)) |->
        m.rec[SelectSeq([j \in 1..Len(m.rec) |-> BlockWalk(m, j)],
                        LAMBDA i : m.rec[i].frame = _frame)[k]].state]

----------------------------------------------------------------------------
(* OpenQueue *)

RECURSIVE PushPos(_, _, _, _)
PushPos(rec, lst, p, i) ==
    IF i > Len(lst) THEN i
    ELSE IF rec[p].totalCost < rec[lst[i]].totalCost THEN i
    ELSE PushPos(rec, lst, p, i + 1)

Push(m, pNode) ==
    IF m.rec[pNode].inOpen \/ m.rec[pNode].inClosed \/ ~(m.rec[pNode].totalCost < FLT_MAX)
    THEN Fail(m)
    ELSE [m EXCEPT !.open = InsertAt(@, PushPos(m.rec, @, pNode, 1), pNode),
                   !.rec[pNode].inOpen = TRUE]

\* PopHead that leaves the inOpen flag of the unlinked node set
PopHeadKeepsOpen(m, pNode) ==
    IF m.rec[pNode].inClosed \/ ~m.rec[pNode].inOpen
    THEN [m |-> Fail([m EXCEPT !.open = Tail(@)]), node |-> pNode]
    ELSE [m |-> [m EXCEPT !.open = Tail(@)], node |-> pNode]

\* Pop returns the engine and the node unlinked from the head
PopHead(m, pNode) ==
    IF m.rec[pNode].inClosed \/ ~m.rec[pNode].inOpen
    THEN [m |-> Fail([m EXCEPT !.open = Tail(@)]), node |-> pNode]
    ELSE [m |-> [m EXCEPT !.open = Tail(@), !.rec[pNode].inOpen = FALSE],
          node |-> pNode]

Pop(m) ==
    IF m.open = <<>> THEN [m |-> Fail(m), node |-> NULL]
    ELSE PopHead(m, Head(m.open))

RECURSIVE ScanRight(_, _, _, _)
ScanRight(rec, lst, p, j) ==
    IF j > Len(lst) THEN j
    ELSE IF rec[p].totalCost > rec[lst[j]].totalCost THEN ScanRight(rec, lst, p, j + 1)
    ELSE j

\* Update, second half: pNode stands at i in lst; too high, it moves right
UpdateRight(rec, lst, pNode, i) ==
    IF rec[pNode].totalCost >
           (IF i < Len(lst) THEN rec[lst[i + 1]].totalCost ELSE FLT_MAX)
    THEN InsertAt(RemoveAt(lst, i), ScanRight(rec, RemoveAt(lst, i), pNode, i), pNode)
    ELSE lst

\* UpdateFront that leaves a node moved to the front where it is
UpdateFrontOnly(rec, lst, pNode, i) ==
    IF i > 1 /\ rec[pNode].totalCost < rec[lst[i - 1]].totalCost
    THEN <<pNode>> \o RemoveAt(lst, i)
    ELSE UpdateRight(rec, lst, pNode, i)

\* Update, first half: pNode stands at i; cheaper than the node before it,
\* it moves to the front
UpdateFront(rec, lst, pNode, i) ==
    IF i > 1 /\ rec[pNode].totalCost < rec[lst[i - 1]].totalCost
    THEN UpdateRight(rec, <<pNode>> \o RemoveAt(lst, i), pNode, 1)
    ELSE UpdateRight(rec, lst, pNode, i)

Update(m, pNode) ==
    IF ~m.rec[pNode].inOpen THEN Fail(m)
    ELSE [m EXCEPT !.open = UpdateFront(m.rec, @, pNode, IndexOf(@, pNode))]

ClosedSetAdd(m, pNode) == [m EXCEPT !.rec[pNode].inClosed = TRUE]

----------------------------------------------------------------------------
(* PathCache *)

\* Item::Hash reads the bytes the start pointer points at
ItemHash(item) == stmem[item.start]

ItemEmpty(item) == item.start = NULL /\ item.end = NULL

KeyEqual(a, b) == a.start = b.start /\ a.end = b.end

\* The linear probe shared by AddItem and Find: where it stops, and whether on
\* an empty slot or on the key; "loop" when the table holds neither.
RECURSIVE Probe(_, _, _, _)
Probe(m, item, index, fuel) ==
    IF fuel = 0 THEN [kind |-> "loop", index |-> index]
    ELSE IF ItemEmpty(m.mem[index]) THEN [kind |-> "empty", index |-> index]
    ELSE IF KeyEqual(m.mem[index], item) THEN [kind |-> "key", index |-> index]
    ELSE Probe(m, item, IF index + 1 = m.allocated THEN 0 ELSE index + 1, fuel - 1)

\* AddItemAt that writes the item over an entry of the same key
AddItemAtOverwrites(m, item, p) ==
    IF p.kind = "loop" THEN [m EXCEPT !.hung = TRUE]
    ELSE IF p.kind = "empty"
    THEN [m EXCEPT !.mem[p.index] = item, !.nItems = @ + 1]
    ELSE [m EXCEPT !.mem[p.index] = item]

\* AddItem once the probe p has stopped
AddItemAt(m, item, p) ==
    IF p.kind = "loop" THEN [m EXCEPT !.hung = TRUE]
    ELSE IF p.kind = "empty"
    THEN [m EXCEPT !.mem[p.index] = item, !.nItems = @ + 1]
    ELSE IF (m.mem[p.index].next # NULL /\ item.next # NULL)
            \/ (m.mem[p.index].next = NULL /\ item.next = NULL)
         THEN m
         ELSE Fail(m)

AddItem(m, item) ==
    AddItemAt(m, item, Probe(m, item, ItemHash(item) % m.allocated, m.allocated))

\* Find: the slot of the key, -1 if absent (the code's null), -2 if the probe
\* does not end
FindAt(p) == IF p.kind = "key" THEN p.index ELSE IF p.kind = "empty" THEN -1 ELSE -2

Find(m, start, end) ==
    FindAt(Probe(m, [start |-> start, end |-> end, next |-> NULL, cost |-> 0],
                 stmem[start] % m.allocated, m.allocated))

\* PathCacheReset that zeroes the counters and leaves the slots
PathCacheResetCounters(m) ==
    IF m.nItems # 0 THEN [m EXCEPT !.nItems = 0, !.hit = 0, !.miss = 0] ELSE m

PathCacheReset(m) ==
    IF m.nItems # 0
    THEN [m EXCEPT !.mem = [i \in 0..(m.allocated - 1) |-> EmptyItem],
                   !.nItems = 0, !.hit = 0, !.miss = 0]
    ELSE m

\* AddItems that stores the entry of the first state of the path only
AddItemsFirstHop(m, path, cost, i) ==
    AddItem(m, [start |-> path[1], end |-> path[Len(path)],
                next |-> path[2], cost |-> cost[1]])

\* AddItems that stores no entry for the last hop of the path
RECURSIVE AddItemsButLast(_, _, _, _)
AddItemsButLast(m, path, cost, i) ==
    IF i > Len(path) - 2 \/ m.failed \/ m.hung THEN m
    ELSE AddItemsButLast(AddItem(m, [start |-> path[i], end |-> path[Len(path)],
                                     next |-> path[i + 1], cost |-> cost[i]]),
                         path, cost, i + 1)

RECURSIVE AddItems(_, _, _, _)
AddItems(m, path, cost, i) ==
    IF i > Len(path) - 1 \/ m.failed \/ m.hung THEN m
    ELSE AddItems(AddItem(m, [start |-> path[i], end |-> path[Len(path)],
                              next |-> path[i + 1], cost |-> cost[i]]),
                  path, cost, i + 1)

\* PathCacheAdd without the test of the load cap
PathCacheAddUnchecked(m, path, cost) == AddItems(m, path, cost, 1)

PathCacheAdd(m, path, cost) ==
    IF m.nItems + Len(path) > (m.allocated * 3) \div 4 THEN m
    ELSE AddItems(m, path, cost, 1)

RECURSIVE AddNoItems(_, _, _, _)
AddNoItems(m, end, states, i) ==
    IF i > Len(states) \/ m.failed \/ m.hung THEN m
    ELSE AddNoItems(AddItem(m, [start |-> states[i], end |-> end,
                                next |-> NULL, cost |-> FLT_MAX]),
                    end, states, i + 1)

\* AddNoSolution that refuses the batch that exactly reaches the load cap
AddNoSolutionStrict(m, end, states) ==
    IF Len(states) + m.nItems >= (m.allocated * 3) \div 4 THEN m
    ELSE AddNoItems(m, end, states, 1)

AddNoSolution(m, end, states) ==
    IF Len(states) + m.nItems > (m.allocated * 3) \div 4 THEN m
    ELSE AddNoItems(m, end, states, 1)

\* The replay loop of PathCache::Solve, the item of (start, end) at slot idx
RECURSIVE Replay(_, _, _, _, _, _)
Replay(m, start, end, idx, path, fuel) ==
    IF idx = -2 \/ fuel = 0 THEN [m |-> [m EXCEPT !.hung = TRUE], path |-> <<>>]
    ELSE IF start = end THEN [m |-> m, path |-> path]
    ELSE IF idx = -1 THEN [m |-> Fail(m), path |-> <<>>]
    ELSE \* a null next hop: the next Find hashes through a null pointer
         IF m.mem[idx].next = NULL THEN [m |-> Fail(m), path |-> <<>>]
         ELSE Replay(m, m.mem[idx].next, end, Find(m, m.mem[idx].next, end),
                     Append(path, m.mem[idx].next), fuel - 1)

\* PathCacheSolveHit that does not count the hit
PathCacheSolveHitUncounted(r) == r

PathCacheSolveHit(r) ==
    IF r.m.failed \/ r.m.hung THEN r
    ELSE [m |-> [r.m EXCEPT !.hit = @ + 1], path |-> r.path]

\* PathCache::Solve once Find has returned idx
\* PathCacheSolveAt that does not count the hit on a negative entry
PathCacheSolveAtSilent(m, start, end, idx) ==
    IF idx = -2 THEN [m |-> [m EXCEPT !.hung = TRUE], path |-> <<>>]
    ELSE IF idx # -1
    THEN IF m.mem[idx].cost = FLT_MAX
         THEN [m |-> m, path |-> <<>>]
         ELSE PathCacheSolveHit(Replay(m, start, end, idx, <<start>>, 2 * Len(StateSeq)))
    ELSE [m |-> [m EXCEPT !.miss = @ + 1], path |-> <<>>]

PathCacheSolveAt(m, start, end, idx) ==
    IF idx = -2 THEN [m |-> [m EXCEPT !.hung = TRUE], path |-> <<>>]
    ELSE IF idx # -1
    THEN IF m.mem[idx].cost = FLT_MAX
         THEN [m |-> [m EXCEPT !.hit = @ + 1], path |-> <<>>]
         ELSE PathCacheSolveHit(Replay(m, start, end, idx, <<start>>, 2 * Len(StateSeq)))
    ELSE [m |-> [m EXCEPT !.miss = @ + 1], path |-> <<>>]

PathCacheSolve(m, start, end) == PathCacheSolveAt(m, start, end, Find(m, start, end))

----------------------------------------------------------------------------
(* MicroPather *)

\* MicroPather::MicroPather with PathNodePool::PathNodePool and
\* PathCache::PathCache, and an idle call frame
NewMicroPather(allocate, typicalAdjacent, cache) ==
    [allocate |-> allocate,
     cacheCap |-> allocate * typicalAdjacent,
     cache |-> <<>>,
     hashTable |-> [k \in 0..(HashSize - 1) |-> NULL],
     nBlocks |-> 1,
     rec |-> [i \in 1..allocate |-> ZeroNode],
     freeList |-> [i \in 1..allocate |-> i],
     nAllocated |-> 0,
     nAvailable |-> allocate,
     frame |-> 0,
     hasCache |-> cache,
     allocated |-> allocate * 4,
     mem |-> [i \in 0..(allocate * 4 - 1) |-> EmptyItem],
     nItems |-> 0,
     hit |-> 0,
     miss |-> 0,
     \* the call in progress
     pc |-> "idle", op |-> "none", startNode |-> NULL, endNode |-> NULL, maxCost |-> 0,
     open |-> <<>>, closedList |-> <<>>,
     path |-> <<>>, near |-> <<>>, outcome |-> "none",
     estCalls |-> 0, adjCalls |-> 0, failed |-> FALSE, hung |-> FALSE,
     \* counters of the object as the call was entered
     pre |-> [frame |-> 0, hit |-> 0, miss |-> 0, nItems |-> 0]]

\* The fields of the MicroPather object proper (without the call frame)
Engine(m) ==
    [allocate |-> m.allocate, cacheCap |-> m.cacheCap, cache |-> m.cache,
     hashTable |-> m.hashTable, nBlocks |-> m.nBlocks, rec |-> m.rec,
     freeList |-> m.freeList, nAllocated |-> m.nAllocated, nAvailable |-> m.nAvailable,
     frame |-> m.frame, hasCache |-> m.hasCache, allocated |-> m.allocated,
     mem |-> m.mem, nItems |-> m.nItems, hit |-> m.hit, miss |-> m.miss]

EnterCall(m, op, startNode, endNode, maxCost) ==
    [m EXCEPT !.pc = "idle", !.op = op, !.startNode = startNode, !.endNode = endNode,
              !.maxCost = maxCost, !.open = <<>>, !.closedList = <<>>,
              !.path = <<>>, !.near = <<>>, !.outcome = "running",
              !.estCalls = 0, !.adjCalls = 0, !.failed = FALSE, !.hung = FALSE,
              !.pre = [frame |-> m.frame, hit |-> m.hit, miss |-> m.miss,
                       nItems |-> m.nItems]]

Return(m, path, outcome) ==
    [m EXCEPT !.pc = "idle", !.path = path, !.outcome = outcome,
              !.open = <<>>, !.closedList = <<>>]

\* What a returned call was, what it returned and what it cost
CallRecord(m) ==
    [op |-> m.op, startNode |-> m.startNode, endNode |-> m.endNode, maxCost |-> m.maxCost,
     path |-> m.path, near |-> m.near, outcome |-> m.outcome,
     estCalls |-> m.estCalls, adjCalls |-> m.adjCalls, pre |-> m.pre,
     frame |-> m.frame, hit |-> m.hit, miss |-> m.miss, nItems |-> m.nItems]

Broken(m) == m.failed \/ m.hung

\* The call ends by the exception of a failed assertion, or never ends
Thrown(m) == Return(m, <<>>, IF m.hung THEN "hang" ELSE "assert")

\* the call goes on in the loop pc unless an assertion has failed
Running(m, pc) == IF Broken(m) THEN Thrown(m) ELSE [m EXCEPT !.pc = pc]

ResetCache(m) == IF m.hasCache THEN PathCacheReset(m) ELSE m

Reset(m) ==
    Return([ResetCache(PoolClear(EnterCall(m, "Reset", NULL, NULL, 0)))
               EXCEPT !.frame = 0],
           <<>>, "reset")

\* the callback's StateCosts to NodeCosts, one GetPathNode each
RECURSIVE ToPathNodes(_, _, _, _)
ToPathNode(g, stateCostVec, i, acc) ==
    ToPathNodes(g.m, stateCostVec, i + 1,
                Append(acc, [node |-> g.node, cost |-> stateCostVec[i].cost]))

ToPathNodes(m, stateCostVec, i, acc) ==
    IF i > Len(stateCostVec) \/ m.failed THEN [m |-> m, nc |-> acc]
    ELSE ToPathNode(GetPathNode(m, m.frame, stateCostVec[i].state, FLT_MAX, FLT_MAX, NULL),
                    stateCostVec, i, acc)

\* InitStale that hands the cached neighbours on as they are
InitStaleSkipped(m, nc, i) == m

RECURSIVE InitStale(_, _, _)
InitStale(m, nc, i) ==
    IF i > Len(nc) THEN m
    ELSE InitStale(IF m.rec[nc[i].node].frame # m.frame
                   THEN [m EXCEPT !.rec[nc[i].node] =
                           PathNodeInit(@, m.frame, @.state, FLT_MAX, FLT_MAX, NULL)]
                   ELSE m,
                   nc, i + 1)

\* GetNodeNeighbors, the callback branch: c is what PushCache returned
NeighborsStored(c, node, nc) ==
    IF c.ok THEN [m |-> [c.m EXCEPT !.rec[node].cacheIndex = c.start], nc |-> nc]
    ELSE [m |-> c.m, nc |-> nc]

NeighborsConverted(r, node) ==
    IF r.m.failed THEN r ELSE NeighborsStored(PushCache(r.m, r.nc), node, r.nc)

NeighborsQueried(m, node, stateCostVec) ==
    IF Len(stateCostVec) = 0
    THEN [m |-> [m EXCEPT !.adjCalls = @ + 1, !.rec[node].numAdjacent = 0], nc |-> <<>>]
    ELSE NeighborsConverted(
            ToPathNodes([m EXCEPT !.adjCalls = @ + 1,
                                  !.rec[node].numAdjacent = Len(stateCostVec)],
                        stateCostVec, 1, <<>>),
            node)

\* GetNodeNeighbors, the cache branch
NeighborsCached(m, nc) == [m |-> InitStale(m, nc, 1), nc |-> nc]

GetNodeNeighbors(m, node) ==
    IF m.rec[node].numAdjacent = 0 THEN [m |-> m, nc |-> <<>>]
    ELSE IF m.rec[node].cacheIndex < 0
    THEN NeighborsQueried(m, node, AdjacentCost(m.rec[node].state))
    ELSE IF ~GetCacheOk(m, m.rec[node].cacheIndex, m.rec[node].numAdjacent)
         THEN [m |-> Fail(m), nc |-> <<>>]
         ELSE NeighborsCached(m, GetCache(m, m.rec[node].cacheIndex,
                                          m.rec[node].numAdjacent))

\* the slots from node up the parent links to the record without parent
\* (empty if the links never end)
RECURSIVE ParentChain(_, _, _)
ParentChainOn(it, up) == IF up = <<>> THEN <<>> ELSE <<it>> \o up

ParentChain(rec, it, fuel) ==
    IF fuel = 0 THEN <<>>
    ELSE IF rec[it].parent = NULL THEN <<it>>
    ELSE ParentChainOn(it, ParentChain(rec, rec[it].parent, fuel - 1))

\* GoalReached, the edge costs along the path, re-read through
\* GetNodeNeighbors
RECURSIVE PathCosts(_, _, _, _)
PathCostsFound(r, path, i, costVec, js) ==
    IF r.m.failed THEN [m |-> r.m, costVec |-> costVec]
    ELSE IF js = {} THEN [m |-> Fail(r.m), costVec |-> costVec]
    ELSE PathCosts(r.m, path, i + 1, Append(costVec, r.nc[Min0(js)].cost))

PathCostsFrom(r, path, i, costVec, pn1) ==
    PathCostsFound(r, path, i, costVec, {j \in 1..Len(r.nc) : r.nc[j].node = pn1})

PathCostsEdge(m, path, i, costVec, pn0, pn1) ==
    IF pn0 = NULL \/ pn1 = NULL THEN [m |-> Fail(m), costVec |-> costVec]
    ELSE PathCostsFrom(GetNodeNeighbors(m, pn0), path, i, costVec, pn1)

PathCosts(m, path, i, costVec) ==
    IF i > Len(path) - 1 \/ m.failed THEN [m |-> m, costVec |-> costVec]
    ELSE PathCostsEdge(m, path, i, costVec,
                       FetchPathNode(m, path[i]), FetchPathNode(m, path[i + 1]))

\* GoalPath with the chain read in the order it was built, from the end back
GoalPathUnreversed(rec, chain, start, end) ==
    IF Len(chain) < 3 THEN <<start, end>>
    ELSE <<start>>
         \o [k \in 1..(Len(chain) - 2) |-> rec[chain[k + 1]].state]
         \o <<end>>

\* GoalReached, the path from the chain of parents
GoalPath(rec, chain, start, end) ==
    IF Len(chain) < 3 THEN <<start, end>>
    ELSE <<start>>
         \o [k \in 1..(Len(chain) - 2) |-> rec[chain[Len(chain) - k]].state]
         \o <<end>>

GoalCached(c, path) ==
    IF c.m.failed THEN [m |-> c.m, path |-> path]
    ELSE [m |-> PathCacheAdd(c.m, path, c.costVec), path |-> path]

GoalReachedPath(m, path) ==
    IF m.hasCache THEN GoalCached(PathCosts(m, path, 1, <<>>), path)
    ELSE [m |-> m, path |-> path]

GoalReachedChain(m, chain, start, end) ==
    IF chain = <<>> THEN [m |-> [m EXCEPT !.hung = TRUE], path |-> <<>>]
    ELSE GoalReachedPath(m, GoalPath(m.rec, chain, start, end))

GoalReached(m, node, start, end) ==
    GoalReachedChain(m, ParentChain(m.rec, node, m.nBlocks * m.allocate + 1), start, end)

StatesInPool(m) == AllStates(m, m.frame)

----------------------------------------------------------------------------
(* MicroPather::Solve: the entry up to the first Push, one pass of the   *)
(* while loop, and the exit when the open list is exhausted              *)

\* the neighbour record with a new parent and cost, the estimate asked again
\* Relaxed that leaves the parent link of the child as it was
RelaxedParentKept(m, node, child, newCost) ==
    [m EXCEPT !.estCalls = @ + 1,
              !.rec[child] =
                  CalcTotalCost([@ EXCEPT !.costFromStart = newCost,
                                          !.estToGoal =
                                              LeastCostEstimate(m.rec[child].state,
                                                                m.endNode)])]

Relaxed(m, node, child, newCost) ==
    [m EXCEPT !.estCalls = @ + 1,
              !.rec[child] =
                  CalcTotalCost([@ EXCEPT !.parent = node,
                                          !.costFromStart = newCost,
                                          !.estToGoal =
                                              LeastCostEstimate(m.rec[child].state,
                                                                m.endNode)])]

\* RelaxChild that opens a closed record again when its cost is lowered
RelaxChildReopens(m, node, child, newCost, inOpen, inClosed) ==
    IF ((inOpen \/ inClosed) /\ child = node) \/ (inOpen /\ inClosed) THEN Fail(m)
    ELSE IF inOpen \/ inClosed
    THEN IF newCost < m.rec[child].costFromStart
         THEN IF inOpen THEN Update(Relaxed(m, node, child, newCost), child)
              ELSE Push([Relaxed(m, node, child, newCost)
                            EXCEPT !.rec[child].inClosed = FALSE], child)
         ELSE m
    ELSE Push(Relaxed(m, node, child, newCost), child)

\* RelaxChild that leaves a record already open or closed as it is
RelaxChildKeepsFirst(m, node, child, newCost, inOpen, inClosed) ==
    IF ((inOpen \/ inClosed) /\ child = node) \/ (inOpen /\ inClosed) THEN Fail(m)
    ELSE IF inOpen \/ inClosed THEN m
    ELSE Push(Relaxed(m, node, child, newCost), child)

\* one neighbour of the relaxation loop: the engine after it
RelaxChild(m, node, child, newCost, inOpen, inClosed) ==
    IF ((inOpen \/ inClosed) /\ child = node) \/ (inOpen /\ inClosed) THEN Fail(m)
    ELSE IF inOpen \/ inClosed
    THEN IF newCost < m.rec[child].costFromStart
         THEN IF inOpen THEN Update(Relaxed(m, node, child, newCost), child)
              ELSE Relaxed(m, node, child, newCost)
         ELSE m
    ELSE Push(Relaxed(m, node, child, newCost), child)

RECURSIVE RelaxSolve(_, _, _, _)
RelaxSolve(m, node, nodeCostVec, i) ==
    IF i > Len(nodeCostVec) \/ m.failed THEN m
    ELSE IF nodeCostVec[i].cost = FLT_MAX THEN RelaxSolve(m, node, nodeCostVec, i + 1)
    ELSE RelaxSolve(RelaxChild(m, node, nodeCostVec[i].node,
                               FAdd(m.rec[node].costFromStart, nodeCostVec[i].cost),
                               m.rec[nodeCostVec[i].node].inOpen,
                               m.rec[nodeCostVec[i].node].inClosed),
                    node, nodeCostVec, i + 1)

SolvePushStart(g) ==
    IF g.m.failed THEN Thrown(g.m) ELSE Running(Push(g.m, g.node), "solve")

\* Solve past the path cache: a new frame, the start record, the first Push
\* SolveSearch that searches in the frame of the search before
SolveSearchSameFrame(m, startNode, endNode) ==
    SolvePushStart(GetPathNode([m EXCEPT !.estCalls = @ + 1],
                               m.frame, startNode, 0,
                               LeastCostEstimate(startNode, endNode), NULL))

SolveSearch(m, startNode, endNode) ==
    SolvePushStart(GetPathNode([m EXCEPT !.frame = @ + 1, !.estCalls = @ + 1],
                               m.frame + 1, startNode, 0,
                               LeastCostEstimate(startNode, endNode), NULL))

\* SolveCached that searches whatever PathCache::Solve returned
SolveCachedIgnored(c, startNode, endNode) ==
    IF Broken(c.m) THEN Thrown(c.m)
    ELSE SolveSearch(c.m, startNode, endNode)

\* Solve with a path cache: c is what PathCache::Solve returned
SolveCached(c, startNode, endNode) ==
    IF Broken(c.m) THEN Thrown(c.m)
    ELSE IF c.path # <<>> THEN Return(c.m, c.path, "cached")
    ELSE SolveSearch(c.m, startNode, endNode)

\* SolveEntered that asks the path cache before it compares start and end
SolveEnteredLate(m, startNode, endNode) ==
    IF m.hasCache
    THEN SolveCached(PathCacheSolve(m, startNode, endNode), startNode, endNode)
    ELSE IF startNode = endNode THEN Return(m, <<>>, "trivial")
    ELSE SolveSearch(m, startNode, endNode)

SolveEntered(m, startNode, endNode) ==
    IF startNode = endNode THEN Return(m, <<>>, "trivial")
    ELSE IF m.hasCache
    THEN SolveCached(PathCacheSolve(m, startNode, endNode), startNode, endNode)
    ELSE SolveSearch(m, startNode, endNode)

SolveBegin(m, startNode, endNode) ==
    SolveEntered(EnterCall(m, "Solve", startNode, endNode, 0), startNode, endNode)

SolveGoal(g) == IF Broken(g.m) THEN Thrown(g.m) ELSE Return(g.m, g.path, "found")

SolveExpand(nb, node) == Running(RelaxSolve(nb.m, node, nb.nc, 1), "solve")

\* one pass of the while loop, p is what Pop returned
SolvePopped(p) ==
    IF Broken(p.m) THEN Thrown(p.m)
    ELSE IF p.m.rec[p.node].state = p.m.endNode
    THEN SolveGoal(GoalReached(p.m, p.node, p.m.startNode, p.m.endNode))
    ELSE SolveExpand(GetNodeNeighbors(ClosedSetAdd(p.m, p.node), p.node), p.node)

SolveStep(m) == SolvePopped(Pop(m))

SolveNoSolution(m) == IF Broken(m) THEN Thrown(m) ELSE Return(m, <<>>, "nopath")

SolveExhausted(m) ==
    IF m.hasCache THEN SolveNoSolution(AddNoSolution(m, m.endNode, <<m.startNode>>))
    ELSE SolveNoSolution(m)

----------------------------------------------------------------------------
(* MicroPather::SolveForNearStates, cut the same way *)

RelaxedNear(m, node, child, newCost) ==
    [m EXCEPT !.rec[child] =
        [@ EXCEPT !.parent = node, !.costFromStart = newCost,
                  !.estToGoal = 0, !.totalCost = newCost]]

\* NearChild that leaves a record already open or closed as it is
NearChildKeepsFirst(m, node, child, newCost, inOpen, inClosed) ==
    IF ~(m.rec[node].costFromStart < FLT_MAX) THEN Fail(m)
    ELSE IF (inOpen /\ inClosed) \/ ((inOpen \/ inClosed) /\ child = node) THEN Fail(m)
    ELSE IF inOpen \/ inClosed THEN m
    ELSE IF m.rec[child].state = m.startNode THEN Fail(m)
    ELSE Push(RelaxedNear(m, node, child, newCost), child)

NearChild(m, node, child, newCost, inOpen, inClosed) ==
    IF ~(m.rec[node].costFromStart < FLT_MAX) THEN Fail(m)
    ELSE IF (inOpen /\ inClosed) \/ ((inOpen \/ inClosed) /\ child = node) THEN Fail(m)
    ELSE IF (inOpen \/ inClosed) /\ m.rec[child].costFromStart <= newCost THEN m
    ELSE IF m.rec[child].state = m.startNode THEN Fail(m)
    ELSE IF inOpen THEN Update(RelaxedNear(m, node, child, newCost), child)
    ELSE IF ~inClosed THEN Push(RelaxedNear(m, node, child, newCost), child)
    ELSE RelaxedNear(m, node, child, newCost)

RECURSIVE RelaxNear(_, _, _, _)
RelaxNear(m, node, nodeCostVec, i) ==
    IF i > Len(nodeCostVec) \/ m.failed THEN m
    ELSE RelaxNear(NearChild(m, node, nodeCostVec[i].node,
                             FAdd(m.rec[node].costFromStart, nodeCostVec[i].cost),
                             m.rec[nodeCostVec[i].node].inOpen,
                             m.rec[nodeCostVec[i].node].inClosed),
                   node, nodeCostVec, i + 1)

NearPushStart(g) ==
    IF g.m.failed THEN Thrown(g.m) ELSE Running(Push(g.m, g.node), "near")

NearEntered(m, startState) ==
    NearPushStart(GetPathNode([m EXCEPT !.frame = @ + 1], m.frame + 1,
                              startState, 0, 0, NULL))

NearBegin(m, startState, maxCost) ==
    NearEntered(EnterCall(m, "Near", startState, NULL, maxCost), startState)

NearExpand(nb, node) == Running(RelaxNear(nb.m, node, nb.nc, 1), "near")

\* one pass of the while loop: m has node closed and on the closed list
NearClosed(m, node) ==
    IF m.rec[node].totalCost > m.maxCost THEN m
    ELSE NearExpand(GetNodeNeighbors(m, node), node)

NearPopped(p) ==
    IF Broken(p.m) THEN Thrown(p.m)
    ELSE NearClosed([ClosedSetAdd(p.m, p.node) EXCEPT !.closedList = Append(@, p.node)],
                    p.node)

NearStep(m) == NearPopped(Pop(m))

NearResult(m, keep) ==
    [k \in 1..Len(keep) |->
        [state |-> m.rec[keep[k]].state, cost |-> m.rec[keep[k]].totalCost]]

NearFinish(m) ==
    [Return(m, <<>>, "near") EXCEPT
        !.near = NearResult(m, SelectSeq(m.closedList,
                                         LAMBDA pNode : m.rec[pNode].totalCost <= m.maxCost))]

----------------------------------------------------------------------------
(* The client graphs and heuristics the behaviours range over *)

FiniteEdge(w, a, b) == a # b /\ w[a][b] >= 0 /\ w[a][b] < FLT_MAX

\* shortest distances over finite-cost edges, by Bellman-Ford rounds
RECURSIVE ShortestRounds(_, _, _)
ShortestRounds(w, d, k) ==
    IF k = 0 THEN d
    ELSE ShortestRounds(w,
            [a \in States |-> [b \in States |->
                Min0({d[a][b]} \cup {FAdd(w[a][c], d[c][b]) :
                                      c \in {x \in States : FiniteEdge(w, a, x)}})]],
            k - 1)

Shortest(w) ==
    ShortestRounds(w, [a \in States |-> [b \in States |-> IF a = b THEN 0 ELSE FLT_MAX]],
                   Len(StateSeq) - 1)

\* An undirected edge between the i-th and j-th state and the costs it may
\* have (-1: no such edge)
Edges ==
    << [i |-> 1, j |-> 2, costs |-> {1}],
       [i |-> 1, j |-> 3, costs |-> {-1, 3, 5}],
       [i |-> 1, j |-> 4, costs |-> {-1, 5}],
       [i |-> 1, j |-> 5, costs |-> {-1, 4}],
       [i |-> 2, j |-> 3, costs |-> {1}],
       [i |-> 2, j |-> 4, costs |-> {-1, 1}],
       [i |-> 3, j |-> 4, costs |-> {-1, 1, 2}],
       [i |-> 3, j |-> 5, costs |-> {-1, 1, FLT_MAX}],
       [i |-> 4, j |-> 5, costs |-> {-1, 0, 1}] >>

RECURSIVE EdgeChoices(_)
EdgeChoices(k) ==
    IF k = 0 THEN {<<>>}
    ELSE {Append(f, c) : f \in EdgeChoices(k - 1), c \in Edges[k].costs}

MkGraph(f) ==
    [a \in States |-> [b \in States |->
        LET ks == {k \in 1..Len(Edges) :
                     {StateSeq[Edges[k].i], StateSeq[Edges[k].j]} = {a, b}}
        IN  IF a = b \/ ks = {} THEN -1 ELSE f[CHOOSE k \in ks : TRUE]]]

Graphs == {MkGraph(f) : f \in EdgeChoices(Len(Edges))}

\* A-B=1, B-C=1, A-C=5, C-D=1 and a fifth state E on its own
ScenarioGraph == MkGraph(<<1, 5, -1, -1, 1, -1, 1, -1, -1>>)

\* the same with an edge C-E of infinite cost
BlockedGraph == MkGraph(<<1, 5, -1, -1, 1, -1, 1, FLT_MAX, -1>>)

\* two routes of equal cost from the second state to the fifth
TieGraph == MkGraph(<<1, -1, 5, 4, 1, 1, -1, 1, 1>>)

\* a direct edge A-C=3 beside A-B=1, B-C=1, and C-D=2 beside A-D=5
DetourGraph == MkGraph(<<1, 3, 5, -1, 1, -1, 2, -1, -1>>)

\* Heuristics, all admissible: zero, the true distance, and the true distance
\* at the second state only (admissible but not consistent in general)
HeuristicKinds == {"zero", "exact", "spike"}

MkHeuristic(kind, d) ==
    [a \in States |-> [b \in States |->
        IF d[a][b] = FLT_MAX \/ kind = "zero" THEN 0
        ELSE IF kind = "exact" \/ a = StateSeq[2] THEN d[a][b]
        ELSE 0]]

\* How an engine is built (block size, typical adjacency) and what the bytes
\* behind the state pointers hash to
Machines ==
    { [allocate |-> 1, typicalAdjacent |-> 1, stmem |-> [s \in States |-> 0]],
      [allocate |-> 5, typicalAdjacent |-> 4, stmem |-> [s \in States |-> s]] }

MaxCosts == {0, 2}

\* the clients that make several calls: a graph and a heuristic
LifeClients ==
    { [graph |-> ScenarioGraph, kind |-> "zero"],
      [graph |-> BlockedGraph, kind |-> "zero"],
      [graph |-> TieGraph, kind |-> "zero"],
      [graph |-> DetourGraph, kind |-> "spike"] }

\* the destinations a client with a long life asks paths to
LifeGoals == {StateSeq[4], StateSeq[5]}

----------------------------------------------------------------------------
(* The behaviours: one engine, any calls in any order.  In Spec many       *)
(* graphs get a single call; in SpecLife a few graphs get MaxCalls calls.  *)

InitClient(g, d, kind, sm, gs, b) ==
    /\ wt = g
    /\ dist = d
    /\ est = MkHeuristic(kind, d)
    /\ stmem = sm
    /\ goals = gs
    /\ budget = b

InitEngine(allocate, typicalAdjacent, cache) ==
    /\ mp = NewMicroPather(allocate, typicalAdjacent, cache)
    /\ hist = <<>>
    /\ ncalls = 0

\* where a behaviour has no second engine
NoEngine == [pc |-> "none"]

Init ==
    \E g \in Graphs : \E d \in {Shortest(g)} : \E kind \in HeuristicKinds :
        /\ InitClient(g, d, kind, [s \in States |-> s], States, 1)
        /\ InitEngine(5, 4, FALSE)
        /\ mu = NoEngine

InitLife ==
    \E c \in LifeClients, k \in Machines, cache \in BOOLEAN :
        /\ InitClient(c.graph, Shortest(c.graph), c.kind, k.stmem, LifeGoals, MaxCalls)
        /\ InitEngine(k.allocate, k.typicalAdjacent, cache)
        /\ mu = NoEngine

\* the engine moves to m; a call that has returned is recorded
Moves(m) ==
    /\ mp' = m
    /\ hist' = IF m.pc = "idle" THEN Append(hist, CallRecord(m)) ELSE hist

CallSolve ==
    \E startNode \in States, endNode \in goals :
        /\ mp.pc = "idle" /\ ncalls < budget
        /\ Moves(SolveBegin(mp, startNode, endNode))
        /\ ncalls' = ncalls + 1
        /\ UNCHANGED <<client, mu>>

SolveLoop ==
    /\ mp.pc = "solve" /\ mp.open # <<>>
    /\ Moves(SolveStep(mp))
    /\ UNCHANGED <<client, mu, ncalls>>

SolveEnd ==
    /\ mp.pc = "solve" /\ mp.open = <<>>
    /\ Moves(SolveExhausted(mp))
    /\ UNCHANGED <<client, mu, ncalls>>

CallNear ==
    \E startState \in States, maxCost \in MaxCosts :
        /\ mp.pc = "idle" /\ ncalls < budget
        /\ Moves(NearBegin(mp, startState, maxCost))
        /\ ncalls' = ncalls + 1
        /\ UNCHANGED <<client, mu>>

NearLoop ==
    /\ mp.pc = "near" /\ mp.open # <<>>
    /\ Moves(NearStep(mp))
    /\ UNCHANGED <<client, mu, ncalls>>

NearEnd ==
    /\ mp.pc = "near" /\ mp.open = <<>>
    /\ Moves(NearFinish(mp))
    /\ UNCHANGED <<client, mu, ncalls>>

CallReset ==
    /\ mp.pc = "idle" /\ ncalls < budget
    /\ Moves(Reset(mp))
    /\ ncalls' = ncalls + 1
    /\ UNCHANGED <<client, mu>>

Next ==
    \/ CallSolve
    \/ SolveLoop
    \/ SolveEnd
    \/ CallNear
    \/ NearLoop
    \/ NearEnd
    \/ CallReset

Spec == Init /\ [][Next]_vars

SpecLife == InitLife /\ [][Next]_vars

\* a call that has been entered runs on: the passes of its loop and its return
InCall == Next /\ mp.pc # "idle"

\* weak fairness of InCall, WF_vars(InCall), with ENABLED <<InCall>>_vars
\* written out: a pass or a return can be taken exactly while a call is inside
\* the engine, and each of them changes mp
Progress == []<>(mp.pc = "idle") \/ []<><<InCall>>_vars

\* the clients of SpecLife making FairCalls calls on an engine without the
\* path cache
FairCalls == 2

InitFair ==
    \E c \in LifeClients, k \in Machines :
        /\ InitClient(c.graph, Shortest(c.graph), c.kind, k.stmem, States, FairCalls)
        /\ InitEngine(k.allocate, k.typicalAdjacent, FALSE)
        /\ mu = NoEngine

SpecFair == InitFair /\ [][Next]_vars /\ Progress

----------------------------------------------------------------------------
(* Two engines on the same graph, one built with the path cache and one    *)
(* without, given the same Solve calls; each call runs to its return.      *)

RECURSIVE RunSolve(_)
RunSolve(m) ==
    IF m.pc = "idle" THEN m
    ELSE RunSolve(IF m.open # <<>> THEN SolveStep(m) ELSE SolveExhausted(m))

InitPair ==
    \E c \in LifeClients, k \in Machines :
        /\ InitClient(c.graph, Shortest(c.graph), c.kind, k.stmem, LifeGoals, MaxCalls)
        /\ InitEngine(k.allocate, k.typicalAdjacent, TRUE)
        /\ mu = NewMicroPather(k.allocate, k.typicalAdjacent, FALSE)

PairSolve ==
    \E startNode \in States, endNode \in goals :
        /\ ncalls < budget
        /\ Moves(RunSolve(SolveBegin(mp, startNode, endNode)))
        /\ mu' = RunSolve(SolveBegin(mu, startNode, endNode))
        /\ ncalls' = ncalls + 1
        /\ UNCHANGED client

SpecPair == InitPair /\ [][PairSolve]_vars

----------------------------------------------------------------------------
(* What the properties below speak of *)

\* no call is in progress and at least one has returned
Returned == mp.pc = "idle" /\ hist # <<>>

Last == hist[Len(hist)]

Prev == hist[Len(hist) - 1]

RECURSIVE PathCost(_, _)
PathCost(path, i) ==
    IF i >= Len(path) THEN 0
    ELSE FAdd(wt[path[i]][path[i + 1]], PathCost(path, i + 1))

\* path leads from startNode to endNode along finite-cost edges of the graph
ValidPath(path, startNode, endNode) ==
    /\ Len(path) >= 2
    /\ path[1] = startNode /\ path[Len(path)] = endNode
    /\ \A i \in 1..(Len(path) - 1) : FiniteEdge(wt, path[i], path[i + 1])

\* every edge cost is finite
FiniteCosts == \A a \in States, b \in States : wt[a][b] < FLT_MAX

\* the heuristic toward endNode never overestimates
Admissible(endNode) == \A a \in States : est[a][endNode] <= dist[a][endNode]

\* the heuristic toward endNode is consistent
Consistent(endNode) ==
    /\ est[endNode][endNode] = 0
    /\ \A a \in States, b \in States :
          FiniteEdge(wt, a, b) => est[a][endNode] <= wt[a][b] + est[b][endNode]

\* the call r was a Solve between two different states, end reachable
SolveReachable(r) ==
    /\ r.op = "Solve" /\ r.startNode # r.endNode
    /\ dist[r.startNode][r.endNode] < FLT_MAX

----------------------------------------------------------------------------
(* C1 *)

\* C1 as stated: on a graph with finite costs and with an admissible heuristic,
\* a full search for a reachable end returns a path of minimum cost.
C1_AdmissibleOptimal ==
    \A i \in 1..Len(hist) :
        (SolveReachable(hist[i]) /\ FiniteCosts /\ Admissible(hist[i].endNode)
            /\ hist[i].outcome # "cached")
        => /\ hist[i].outcome = "found"
           /\ PathCost(hist[i].path, 1) = dist[hist[i].startNode][hist[i].endNode]

\* C1 amended: under the same conditions the search returns a path from start
\* to end along edges of the graph, whose cost is at least the minimum and at
\* most the cost of the direct edge if there is one; it is the minimum when
\* the heuristic is consistent as well.
C1_AdmissibleValid ==
    \A i \in 1..Len(hist) :
        (SolveReachable(hist[i]) /\ FiniteCosts /\ Admissible(hist[i].endNode)
            /\ hist[i].outcome # "cached")
        => /\ hist[i].outcome = "found"
           /\ ValidPath(hist[i].path, hist[i].startNode, hist[i].endNode)
           /\ PathCost(hist[i].path, 1) >= dist[hist[i].startNode][hist[i].endNode]
           /\ FiniteEdge(wt, hist[i].startNode, hist[i].endNode)
                => PathCost(hist[i].path, 1) <= wt[hist[i].startNode][hist[i].endNode]
           /\ Consistent(hist[i].endNode)
                => PathCost(hist[i].path, 1) = dist[hist[i].startNode][hist[i].endNode]

\* a full search under an admissible heuristic that is not consistent has
\* returned a path dearer than the minimum
C1_Witness ==
    /\ Returned /\ SolveReachable(Last) /\ FiniteCosts
    /\ Admissible(Last.endNode) /\ ~Consistent(Last.endNode)
    /\ Last.outcome = "found"
    /\ PathCost(Last.path, 1) > dist[Last.startNode][Last.endNode]

----------------------------------------------------------------------------
(* C2 *)

\* C2: on a graph with finite costs and with an admissible and consistent
\* heuristic, Solve for a reachable end returns a path of minimum cost; on the
\* graph A-B=1, B-C=1, A-C=5, C-D=1 Solve(A, D) returns [A, B, C, D].
C2_ConsistentOptimal ==
    \A i \in 1..Len(hist) :
        (SolveReachable(hist[i]) /\ FiniteCosts
            /\ Admissible(hist[i].endNode) /\ Consistent(hist[i].endNode))
        => /\ hist[i].outcome \in {"found", "cached"}
           /\ ValidPath(hist[i].path, hist[i].startNode, hist[i].endNode)
           /\ PathCost(hist[i].path, 1) = dist[hist[i].startNode][hist[i].endNode]
           /\ (wt = ScenarioGraph /\ hist[i].startNode = StateSeq[1]
                  /\ hist[i].endNode = StateSeq[4])
                => hist[i].path = <<StateSeq[1], StateSeq[2], StateSeq[3], StateSeq[4]>>

\* Solve(A, D) has returned on the scenario graph, the heuristic consistent
C2_Witness ==
    /\ Returned /\ SolveReachable(Last)
    /\ Admissible(Last.endNode) /\ Consistent(Last.endNode)
    /\ wt = ScenarioGraph
    /\ Last.startNode = StateSeq[1] /\ Last.endNode = StateSeq[4]
    /\ Last.path = <<StateSeq[1], StateSeq[2], StateSeq[3], StateSeq[4]>>

----------------------------------------------------------------------------
(* C3 *)

NearStates(r) == {r.near[k].state : k \in 1..Len(r.near)}

\* near holds exactly the states within maxCost of start, once each, with
\* their distance
NearExact(r) ==
    /\ NearStates(r) = {s \in States : dist[r.startNode][s] <= r.maxCost}
    /\ Len(r.near) = Cardinality(NearStates(r))
    /\ \A k \in 1..Len(r.near) : r.near[k].cost = dist[r.startNode][r.near[k].state]

\* C3: on a graph with finite costs SolveForNearStates(start, near, maxCost)
\* fills near with exactly the states whose distance from start is at most
\* maxCost, each once and with that distance, start with cost 0, whatever
\* calls came before.
C3_NearStatesExact ==
    \A i \in 1..Len(hist) :
        (hist[i].op = "Near" /\ FiniteCosts)
        => /\ hist[i].outcome = "near"
           /\ NearExact(hist[i])
           /\ \E k \in 1..Len(hist[i].near) :
                 hist[i].near[k] = [state |-> hist[i].startNode, cost |-> 0]

\* a SolveForNearStates that found three states or more has returned after a
\* Solve and another SolveForNearStates
C3_Witness ==
    /\ Returned /\ Len(hist) = 3 /\ FiniteCosts
    /\ hist[1].op = "Solve" /\ hist[1].outcome = "found"
    /\ hist[2].op = "Near"
    /\ Last.op = "Near" /\ Last.outcome = "near" /\ Len(Last.near) >= 3
    /\ NearExact(Last)

----------------------------------------------------------------------------
(* C4 *)

\* PathCache::Add and AddNoSolution refuse a batch that would pass this
PathCacheCap == (mp.allocated * 3) \div 4

\* the last two calls were Solve(start, end) twice, the first returning a path
RepeatedSolve ==
    /\ Len(hist) >= 2 /\ mp.hasCache
    /\ Prev.op = "Solve" /\ Last.op = "Solve"
    /\ Prev.startNode # Prev.endNode
    /\ Last.startNode = Prev.startNode /\ Last.endNode = Prev.endNode
    /\ Prev.outcome \in {"found", "cached"}

\* the first of them left an entry (start, end) in the path cache
RepeatStored ==
    Prev.outcome = "cached" \/ Prev.pre.nItems + Len(Prev.path) <= PathCacheCap

\* C4 as stated: with the path cache, a Solve(start, end) that follows a
\* Solve(start, end) that returned a path returns the identical path, calls
\* neither AdjacentCost nor LeastCostEstimate and adds one to hit.
C4_RepeatIsReplay ==
    RepeatedSolve
    => /\ Last.path = Prev.path
       /\ Last.estCalls = 0 /\ Last.adjCalls = 0
       /\ Last.hit = Last.pre.hit + 1

\* C4 amended.  If the first Solve was itself answered from the path cache or
\* its path fitted under the load cap (nItems + length of the path at most
\* 3/4 of the slots), the second is answered from the path cache: no
\* callback, hit + 1, the frame unchanged, a path from start to end of the
\* same cost; the identical path if the first was itself a replay or every
\* entry of its path was newly inserted.  Otherwise nothing was stored and the
\* second Solve misses, searches again and returns the identical path.
C4_RepeatReplaysWhatWasStored ==
    RepeatedSolve
    => /\ RepeatStored
            => /\ Last.outcome = "cached"
               /\ Last.estCalls = 0 /\ Last.adjCalls = 0
               /\ Last.hit = Last.pre.hit + 1 /\ Last.miss = Last.pre.miss
               /\ Last.frame = Last.pre.frame
               /\ ValidPath(Last.path, Last.startNode, Last.endNode)
               /\ Consistent(Last.endNode)
                    => PathCost(Last.path, 1) = PathCost(Prev.path, 1)
               /\ (Prev.outcome = "cached"
                     \/ Prev.nItems - Prev.pre.nItems = Len(Prev.path) - 1)
                    => Last.path = Prev.path
       /\ ~RepeatStored
            => /\ Last.outcome = "found"
               /\ Last.miss = Last.pre.miss + 1 /\ Last.hit = Last.pre.hit
               /\ Last.estCalls >= 1
               /\ Last.path = Prev.path

\* a search stored its path and the same Solve again was answered by replay
C4_Witness ==
    /\ Returned /\ RepeatedSolve /\ RepeatStored
    /\ Prev.outcome = "found" /\ Len(Prev.path) >= 3
    /\ Last.outcome = "cached" /\ Last.path = Prev.path
    /\ Last.estCalls = 0 /\ Last.adjCalls = 0

----------------------------------------------------------------------------
(* C5 *)

\* C5: with the path cache, after a Solve(start, end) that found no path and
\* stored the negative entry, the same Solve again returns no path on the
\* negative hit at once: the frame is not incremented and neither
\* LeastCostEstimate nor AdjacentCost is called.
C5_NegativeHitReturnsAtOnce ==
    (/\ Len(hist) >= 2 /\ mp.hasCache
     /\ Prev.op = "Solve" /\ Last.op = "Solve"
     /\ Prev.startNode # Prev.endNode
     /\ Last.startNode = Prev.startNode /\ Last.endNode = Prev.endNode
     /\ Prev.outcome = "nopath"
     /\ Prev.pre.nItems + 1 <= PathCacheCap)
    => /\ Last.path = <<>>
       /\ Last.frame = Last.pre.frame
       /\ Last.estCalls = 0 /\ Last.adjCalls = 0

----------------------------------------------------------------------------
(* C6 *)

\* C6: after Reset the path cache holds no entry, the adjacency cache is
\* empty, the hash table holds no record and the frame is 0; a Solve between
\* two different states that follows a Reset misses the path cache and runs
\* a search that calls LeastCostEstimate and AdjacentCost.
C6_ResetClears ==
    /\ (Returned /\ Last.op = "Reset")
       => /\ mp.nItems = 0
          /\ \A k \in DOMAIN mp.mem : ItemEmpty(mp.mem[k])
          /\ mp.cache = <<>>
          /\ \A k \in DOMAIN mp.hashTable : mp.hashTable[k] = NULL
          /\ mp.frame = 0
    /\ \A i \in 2..Len(hist) :
          (hist[i - 1].op = "Reset" /\ hist[i].op = "Solve"
              /\ hist[i].startNode # hist[i].endNode)
          => /\ hist[i].outcome \in {"found", "nopath"}
             /\ hist[i].frame = 1
             /\ hist[i].hit = hist[i].pre.hit
             /\ mp.hasCache => hist[i].miss = hist[i].pre.miss + 1
             /\ hist[i].estCalls >= 1 /\ hist[i].adjCalls >= 1

\* a pair was stored in the path cache by a Solve, Reset was called, and the
\* same Solve missed and searched again
C6_Witness ==
    /\ Returned /\ Len(hist) = 3 /\ mp.hasCache
    /\ hist[1].op = "Solve" /\ hist[1].nItems > hist[1].pre.nItems
    /\ hist[2].op = "Reset" /\ hist[2].nItems = 0
    /\ hist[3].op = "Solve"
    /\ hist[3].startNode = hist[1].startNode /\ hist[3].endNode = hist[1].endNode
    /\ hist[3].miss = 1 /\ hist[3].hit = 0
    /\ hist[3].estCalls >= 1 /\ hist[3].adjCalls >= 1
    /\ hist[3].path = hist[1].path

----------------------------------------------------------------------------
(* C7 *)

\* C7 as stated: given the same Solve calls, the engine with the path cache
\* and the engine without return the same path at every call.
C7_SamePath == mu.pc = "idle" => mp.path = mu.path

\* C7 amended: at every call the two engines return both the empty result or
\* both a path from start to end, of the same cost when the heuristic is
\* consistent; the paths are identical whenever the engine with the path
\* cache answered by a search.  A replay may follow entries an earlier search
\* toward the same end left, and return another path.
C7_SameCost ==
    (mu.pc = "idle" /\ hist # <<>>)
    => /\ mp.outcome \in {"trivial", "cached", "found", "nopath"}
       /\ (mp.path = <<>>) = (mu.path = <<>>)
       /\ mp.path # <<>> => /\ ValidPath(mp.path, mp.startNode, mp.endNode)
                            /\ ValidPath(mu.path, mp.startNode, mp.endNode)
       /\ Consistent(mp.endNode) => PathCost(mp.path, 1) = PathCost(mu.path, 1)
       /\ mp.outcome # "cached" => mp.path = mu.path

\* a replay through entries left by an earlier search from another start has
\* returned a path that the engine without path cache did not return
C7_Witness ==
    /\ mu.pc = "idle" /\ Len(hist) >= 2
    /\ Last.outcome = "cached" /\ Prev.outcome = "found"
    /\ Prev.startNode # Last.startNode /\ Prev.endNode = Last.endNode
    /\ mp.path # mu.path
    /\ PathCost(mp.path, 1) = PathCost(mu.path, 1)

----------------------------------------------------------------------------
(* C8 *)

SolveUnreachable(r) ==
    /\ r.op = "Solve" /\ r.startNode # r.endNode
    /\ dist[r.startNode][r.endNode] = FLT_MAX

NegativeEntry(startNode, endNode) ==
    \E k \in DOMAIN mp.mem :
        mp.mem[k] = [start |-> startNode, end |-> endNode,
                     next |-> NULL, cost |-> FLT_MAX]

\* C8: if end cannot be reached from start over finite-cost edges, Solve
\* exhausts the open list and returns the empty result without a failed
\* assertion; with the path cache below its load cap it leaves the entry
\* (start, end) with no next hop and infinite cost.
C8_UnreachableIsNoPath ==
    /\ \A i \in 1..Len(hist) :
          SolveUnreachable(hist[i])
          => hist[i].outcome = "nopath" /\ hist[i].path = <<>>
    /\ (Returned /\ SolveUnreachable(Last) /\ mp.hasCache
           /\ Last.pre.nItems < PathCacheCap)
       => NegativeEntry(Last.startNode, Last.endNode)

\* a Solve toward an unreachable state has returned and left its negative
\* entry beside entries of earlier calls
C8_Witness ==
    /\ Returned /\ SolveUnreachable(Last) /\ mp.hasCache
    /\ Last.outcome = "nopath"
    /\ Last.pre.nItems > 0 /\ Last.nItems = Last.pre.nItems + 1
    /\ NegativeEntry(Last.startNode, Last.endNode)

----------------------------------------------------------------------------
(* C9 *)

\* C9: Solve(s, s) returns the empty sequence in every engine state and
\* leaves the engine as it was: frame, records, adjacency cache, path cache
\* and hit/miss counters; no callback is called.
C9_SolveSameState ==
    [][(mp.pc = "idle" /\ ncalls' = ncalls + 1
           /\ mp'.op = "Solve" /\ mp'.startNode = mp'.endNode)
       => /\ mp'.pc = "idle" /\ mp'.outcome = "trivial"
          /\ mp'.path = <<>>
          /\ Engine(mp') = Engine(mp)
          /\ mp'.estCalls = 0 /\ mp'.adjCalls = 0]_vars

\* Solve(s, s) has returned on an engine that had searched and cached before
C9_Witness ==
    /\ Returned /\ Last.op = "Solve" /\ Last.startNode = Last.endNode
    /\ Last.path = <<>>
    /\ Last.pre.frame > 0 /\ Last.pre.nItems > 0 /\ Len(mp.cache) > 0

----------------------------------------------------------------------------
(* C10 *)

\* C10: in Solve and in SolveForNearStates an edge of infinite cost is
\* filtered before relaxation: no assertion fails because of it and the
\* result is the result on the graph without those edges.
C10_InfiniteEdgesFiltered ==
    \A i \in 1..Len(hist) :
        /\ hist[i].outcome # "assert"
        /\ hist[i].op = "Near" => NearExact(hist[i])
        /\ SolveReachable(hist[i])
             => ValidPath(hist[i].path, hist[i].startNode, hist[i].endNode)
        /\ SolveUnreachable(hist[i]) => hist[i].path = <<>>

----------------------------------------------------------------------------
(* Two engines of different size on the same graph, given the same calls.  *)
(* mp has small blocks and a small adjacency cache and is followed step by *)
(* step; mu is larger and runs each call to its return.                    *)

RECURSIVE RunNear(_)
RunNear(m) ==
    IF m.pc = "idle" THEN m
    ELSE RunNear(IF m.open # <<>> THEN NearStep(m) ELSE NearFinish(m))

\* engines whose blocks are smaller than the graph
SmallMachines ==
    { [allocate |-> 1, typicalAdjacent |-> 1, stmem |-> [s \in States |-> 0]],
      [allocate |-> 2, typicalAdjacent |-> 2, stmem |-> [s \in States |-> s]] }

\* the engines an engine of SmallMachines is set beside: one whose blocks hold
\* the whole graph, and one of the same block size whose adjacency cache
\* holds every neighbour list
TwinMachines(k) ==
    { [allocate |-> Len(StateSeq), typicalAdjacent |-> 4],
      [allocate |-> k.allocate, typicalAdjacent |-> 4 * Len(StateSeq)] }

InitTwin ==
    \E c \in LifeClients, k \in SmallMachines, cache \in BOOLEAN :
        \E t \in TwinMachines(k) :
            /\ InitClient(c.graph, Shortest(c.graph), c.kind, k.stmem, LifeGoals, MaxCalls)
            /\ InitEngine(k.allocate, k.typicalAdjacent, cache)
            /\ mu = NewMicroPather(t.allocate, t.typicalAdjacent, cache)

TwinSolve ==
    \E startNode \in States, endNode \in goals :
        /\ mp.pc = "idle" /\ ncalls < budget
        /\ Moves(SolveBegin(mp, startNode, endNode))
        /\ mu' = RunSolve(SolveBegin(mu, startNode, endNode))
        /\ ncalls' = ncalls + 1
        /\ UNCHANGED client

TwinNear ==
    \E startState \in States, maxCost \in MaxCosts :
        /\ mp.pc = "idle" /\ ncalls < budget
        /\ Moves(NearBegin(mp, startState, maxCost))
        /\ mu' = RunNear(NearBegin(mu, startState, maxCost))
        /\ ncalls' = ncalls + 1
        /\ UNCHANGED client

TwinReset ==
    /\ mp.pc = "idle" /\ ncalls < budget
    /\ Moves(Reset(mp))
    /\ mu' = Reset(mu)
    /\ ncalls' = ncalls + 1
    /\ UNCHANGED client

NextTwin ==
    \/ TwinSolve
    \/ SolveLoop
    \/ SolveEnd
    \/ TwinNear
    \/ NearLoop
    \/ NearEnd
    \/ TwinReset

SpecTwin == InitTwin /\ [][NextTwin]_vars

----------------------------------------------------------------------------
(* C11 *)

\* the pool's counters agree with its free list and its blocks
PoolCounted(m) ==
    /\ m.nAvailable = Len(m.freeList)
    /\ m.nAllocated + m.nAvailable = m.allocate * m.nBlocks
    /\ Len(m.rec) = m.allocate * m.nBlocks
    /\ \A i \in 1..Len(m.freeList) : m.freeList[i] \in 1..Len(m.rec)

\* a is what Alloc returns in the pool of m: no assertion of Alloc fails, a
\* record comes back, and a block is chained exactly when the free list was empty
AllocServes(m, a) ==
    /\ a.m.failed = m.failed
    /\ a.node \in 1..Len(a.m.rec)
    /\ a.m.nAllocated = m.nAllocated + 1
    /\ a.m.nBlocks = m.nBlocks + (IF m.freeList = <<>> THEN 1 ELSE 0)
    /\ PoolCounted(a.m)

PoolSound(m) == PoolCounted(m) /\ AllocServes(m, Alloc(m))

\* the last call was a Solve, made of two engines of different block size
TwinSolved == Returned /\ Last.op = "Solve" /\ mu.allocate # mp.allocate

\* C11 as stated: for every block size and every graph with more states than a
\* block holds, Alloc never fails (an empty free list chains a block), in every
\* reachable state nAvailable is the length of the free list and nAllocated +
\* nAvailable is allocate times the number of blocks, and the path Solve
\* returns is the same whatever the block size.
C11_PoolAndSamePath ==
    /\ PoolSound(mp) /\ PoolSound(mu)
    /\ TwinSolved => Last.path = mu.path

\* C11 amended: the same about Alloc and the counters; the path Solve returns
\* is the same whatever the block size for engines without the path cache; with
\* the path cache a path is returned for one block size exactly when it is for
\* the other, and under a consistent heuristic the two paths cost the same.
C11_PoolAndSameCost ==
    /\ PoolSound(mp) /\ PoolSound(mu)
    /\ TwinSolved =>
          /\ ~mp.hasCache => Last.path = mu.path
          /\ Last.outcome = "assert" <=> mu.outcome = "assert"
          /\ Last.path = <<>> <=> mu.path = <<>>
          /\ (Consistent(Last.endNode) /\ FiniteCosts)
                => PathCost(Last.path, 1) = PathCost(mu.path, 1)

\* an engine with blocks of one record has chained a block for every state of
\* the graph and returned a path through four of them
C11_Witness ==
    /\ TwinSolved /\ Last.outcome = "found" /\ Len(Last.path) = 4
    /\ mp.allocate = 1 /\ mp.nBlocks = Len(StateSeq) /\ mp.nAvailable = 0
    /\ mu.nBlocks = 1

----------------------------------------------------------------------------
(* C12 *)

\* the states that have a record of the current frame in the hash table, none
\* before the first search after construction or Reset
ActiveStates(m) ==
    IF m.frame = 0 THEN {}
    ELSE {s \in States : /\ FetchPathNode(m, s) # NULL
                         /\ m.rec[FetchPathNode(m, s)].frame = m.frame}

Range(f) == {f[i] : i \in DOMAIN f}

\* C12 as stated: between calls StatesInPool returns exactly the states whose
\* record the most recent search since the last Reset created or initialised
\* again: nothing before the first search, no null state, no state that was
\* touched only before the last Reset.
C12_StatesInPoolExact ==
    mp.pc = "idle" => Range(StatesInPool(mp)) = ActiveStates(mp)

----------------------------------------------------------------------------
(* C13 *)

\* no assertion has failed in the call in progress nor in a call that returned
NoAssertion ==
    /\ ~mp.failed /\ mp.outcome # "assert"
    /\ \A i \in 1..Len(hist) : hist[i].outcome # "assert"

\* no record of the pool is both open and closed
OpenOrClosed == \A i \in 1..Len(mp.rec) : ~(mp.rec[i].inOpen /\ mp.rec[i].inClosed)

\* the records this step has linked into the open list
Pushed == {i \in Range(mp'.open) : i \notin Range(mp.open)}

\* before the step record i was the record of its state in the search going on
Current(i) ==
    /\ mp.pc # "idle" /\ i \in 1..Len(mp.rec)
    /\ mp.rec[i].frame = mp.frame
    /\ FetchPathNode(mp, mp.rec[i].state) = i

\* a step pushes only records that were in neither set and cost less than
\* infinity, and pops only from a list that is not empty
PushPopSound ==
    /\ \A i \in Pushed :
          /\ mp'.rec[i].totalCost < FLT_MAX
          /\ mp'.rec[i].inOpen /\ ~mp'.rec[i].inClosed
          /\ Current(i) => ~mp.rec[i].inOpen /\ ~mp.rec[i].inClosed
    /\ (mp.pc # "idle" /\ mp.open # <<>> /\ mp'.rec[Head(mp.open)].inClosed)
          => mp.rec[Head(mp.open)].inOpen /\ ~mp.rec[Head(mp.open)].inClosed

----------------------------------------------------------------------------
(* C14 *)

\* a search is between two passes of its loop
Searching(m) == m.pc \in {"solve", "near"}

\* the records of m that are the record of their state in the current frame
CurrentRecords(m) ==
    {i \in 1..Len(m.rec) : /\ m.rec[i].frame = m.frame
                           /\ FetchPathNode(m, m.rec[i].state) = i}

SortedOpen(m) ==
    \A k \in 1..(Len(m.open) - 1) :
        m.rec[m.open[k]].totalCost <= m.rec[m.open[k + 1]].totalCost

\* every open record of the current frame is linked, once, and nothing else is
LinkedOpen(m) ==
    /\ \A j, k \in 1..Len(m.open) : m.open[j] = m.open[k] => j = k
    /\ Range(m.open) = {i \in CurrentRecords(m) : m.rec[i].inOpen}

OpenSound(m) == SortedOpen(m) /\ LinkedOpen(m)

\* the total costs around those on the open list
NearbyCosts(m) ==
    {0} \cup UNION {{m.rec[i].totalCost - 1, m.rec[i].totalCost, m.rec[i].totalCost + 1} \cap Nat
                       : i \in Range(m.open)}

WithTotal(m, i, c) == [m EXCEPT !.rec[i].totalCost = c]

\* record i as a search finds it before it pushes it: in neither set
Untouched(m, i, c) ==
    [m EXCEPT !.rec[i].totalCost = c, !.rec[i].inOpen = FALSE, !.rec[i].inClosed = FALSE]

\* Push of any record in neither set, at any cost, keeps the list sound
PushKeeps(m) ==
    \A i \in CurrentRecords(m) \ Range(m.open) :
        \A c \in NearbyCosts(m) :
            /\ ~Push(Untouched(m, i, c), i).failed
            /\ OpenSound(Push(Untouched(m, i, c), i))
            /\ Range(Push(Untouched(m, i, c), i).open) = Range(m.open) \cup {i}

\* Update of any open record whose cost was lowered keeps the list sound and
\* keeps the same records
UpdateKeeps(m) ==
    \A i \in Range(m.open) :
        \A c \in {d \in NearbyCosts(m) : d <= m.rec[i].totalCost} :
            /\ ~Update(WithTotal(m, i, c), i).failed
            /\ OpenSound(Update(WithTotal(m, i, c), i))
            /\ Range(Update(WithTotal(m, i, c), i).open) = Range(m.open)
            /\ Len(Update(WithTotal(m, i, c), i).open) = Len(m.open)

\* p is what Pop returned: a record of minimal total cost, the rest sound
PopServes(m, p) ==
    /\ ~p.m.failed
    /\ \A i \in Range(m.open) : m.rec[p.node].totalCost <= m.rec[i].totalCost
    /\ Range(p.m.open) = Range(m.open) \ {p.node}
    /\ OpenSound(p.m)

PopKeeps(m) == m.open # <<>> => PopServes(m, Pop(m))

\* C14: whenever a search driver stands between two passes of its loop the
\* open list is sorted in non-decreasing totalCost and links exactly the
\* current records with inOpen set, and it stays so after any Push, any Update
\* and the Pop that can follow; Pop returns a record of minimal totalCost.
C14_OpenListSorted ==
    Searching(mp) =>
        /\ OpenSound(mp)
        /\ PushKeeps(mp) /\ UpdateKeeps(mp) /\ PopKeeps(mp)

\* a neighbour of the start that Update has moved: it is open, costs less
\* than its edge from the start, and two more records are open with it
C14_Witness ==
    /\ mp.pc = "solve" /\ Len(mp.open) >= 3
    /\ \E i \in Range(mp.open) :
          /\ FiniteEdge(wt, mp.startNode, mp.rec[i].state)
          /\ mp.rec[i].costFromStart < wt[mp.startNode][mp.rec[i].state]
    /\ \E i, j \in Range(mp.open) : mp.rec[i].totalCost < mp.rec[j].totalCost

----------------------------------------------------------------------------
(* C15 *)

\* the slots of the path cache that hold an entry
Entries(m) == {i \in 0..(m.allocated - 1) : ~ItemEmpty(m.mem[i])}

\* the probe for any key ends, on the key or on an empty slot
ProbesEnd(m) ==
    \A start \in States, end \in States :
        Probe(m, [start |-> start, end |-> end, next |-> NULL, cost |-> 0],
              stmem[start] % m.allocated, m.allocated).kind # "loop"

\* C15: in every reachable state of the path cache there is at most one entry
\* per (start, end), nItems is the number of slots that are not empty, and
\* nItems <= allocated * 3 / 4 < allocated, so that a slot is empty and the
\* probes of Find and AddItem end.
C15_PathCacheLoad ==
    mp.hasCache =>
        /\ \A i, j \in Entries(mp) : KeyEqual(mp.mem[i], mp.mem[j]) => i = j
        /\ mp.nItems = Cardinality(Entries(mp))
        /\ mp.nItems <= (mp.allocated * 3) \div 4
        /\ (mp.allocated * 3) \div 4 < mp.allocated
        /\ Entries(mp) # 0..(mp.allocated - 1)
        /\ ProbesEnd(mp)
        /\ ~mp.hung

\* the path cache is filled up to its cap, a search has found a path that
\* added no entry, and an entry stands away from the slot its hash names
C15_Witness ==
    /\ mp.hasCache /\ mp.nItems = (mp.allocated * 3) \div 4
    /\ \E i \in Entries(mp) : ItemHash(mp.mem[i]) % mp.allocated # i
    /\ \E k \in 1..Len(hist) :
          hist[k].outcome = "found" /\ hist[k].nItems = hist[k].pre.nItems

----------------------------------------------------------------------------
(* C16 *)

\* this step ends a search of an engine with the path cache at the goal:
\* GoalReached hands the path it returns to PathCache::Add
AddsPath == mp.hasCache /\ mp.pc = "solve" /\ mp'.pc = "idle" /\ mp'.outcome = "found"

\* the entry Add makes for the i-th state of path
HopItem(path, i) ==
    [start |-> path[i], end |-> path[Len(path)], next |-> path[i + 1],
     cost |-> wt[path[i]][path[i + 1]]]

\* the batch would exceed the load cap
OverCap(m, path) == m.nItems + Len(path) > (m.allocated * 3) \div 4

\* the step has added path whole: every key of the path has an entry, a slot
\* that changed was empty and now holds the entry of a state of the path, and
\* nItems has grown by the slots that changed
AddedWhole(path) ==
    /\ \A i \in 1..(Len(path) - 1) :
          \E j \in Entries(mp') : KeyEqual(mp'.mem[j], HopItem(path, i))
    /\ \A j \in 0..(mp.allocated - 1) :
          mp'.mem[j] # mp.mem[j] =>
              /\ ItemEmpty(mp.mem[j])
              /\ \E i \in 1..(Len(path) - 1) : mp'.mem[j] = HopItem(path, i)
    /\ mp'.nItems = mp.nItems + Cardinality(Entries(mp') \ Entries(mp))

AllOrNothing(path) ==
    IF OverCap(mp, path) THEN mp'.mem = mp.mem /\ mp'.nItems = mp.nItems
    ELSE AddedWhole(path)

\* C16: PathCache::Add of the path [s0..sk] is all-or-nothing: the path cache
\* is left as it was when the batch would exceed the load cap; otherwise every
\* key (si, sk) has an entry afterwards, every entry the call inserted has
\* next hop s(i+1) and the cost AdjacentCost reports for the edge si -> s(i+1),
\* and the entries that were there are as they were.
C16_AddAllOrNothing == [][AddsPath => AllOrNothing(mp'.path)]_vars

\* a search has added entries for some states of its path beside an entry
\* that was there and names another next hop
C16_Witness ==
    /\ Returned /\ mp.hasCache /\ Last.outcome = "found"
    /\ Last.nItems > Last.pre.nItems
    /\ Last.nItems - Last.pre.nItems < Len(Last.path) - 1
    /\ \E i \in 1..(Len(Last.path) - 1) : \E j \in Entries(mp) :
          /\ KeyEqual(mp.mem[j], HopItem(Last.path, i))
          /\ mp.mem[j].next # Last.path[i + 1]

----------------------------------------------------------------------------
(* C17 *)

\* following next hops from start toward end: every hop has an entry of finite
\* cost, no state comes twice, and end is reached
RECURSIVE ChainEnds(_, _, _, _)
HopEnds(m, idx, end, seen) ==
    /\ idx >= 0
    /\ m.mem[idx].cost < FLT_MAX
    /\ m.mem[idx].next # NULL
    /\ m.mem[idx].next \notin seen
    /\ ChainEnds(m, m.mem[idx].next, end, seen \cup {m.mem[idx].next})

ChainEnds(m, start, end, seen) ==
    start = end \/ HopEnds(m, Find(m, start, end), end, seen)

\* r is what PathCache::Solve returns for an entry of finite cost: it ends,
\* with no assertion, by a path from start to end along edges of the graph
SolveEnds(r, start, end) ==
    /\ ~r.m.failed /\ ~r.m.hung
    /\ ValidPath(r.path, start, end)

\* C17: in every reachable state of the path cache, from every entry of finite
\* cost the next hops lead to the end through entries of finite cost without
\* coming to a state twice, so that PathCache::Solve ends and its assertion
\* holds, and no key on such a chain holds a negative entry.
C17_ChainsComplete ==
    mp.hasCache =>
        \A j \in Entries(mp) :
            mp.mem[j].cost < FLT_MAX =>
                /\ ChainEnds(mp, mp.mem[j].start, mp.mem[j].end, {mp.mem[j].start})
                /\ SolveEnds(PathCacheSolve([mp EXCEPT !.failed = FALSE],
                                            mp.mem[j].start, mp.mem[j].end),
                             mp.mem[j].start, mp.mem[j].end)

\* the path cache holds a chain of three hops, made by two searches, beside a
\* negative entry
C17_Witness ==
    /\ mp.hasCache /\ Len(hist) >= 2
    /\ \E j \in Entries(mp) : mp.mem[j].cost = FLT_MAX /\ mp.mem[j].next = NULL
    /\ \E j \in Entries(mp) :
          /\ mp.mem[j].cost < FLT_MAX
          /\ Len(PathCacheSolve(mp, mp.mem[j].start, mp.mem[j].end).path) = 4
          /\ \A k \in 1..Len(hist) : hist[k].nItems - hist[k].pre.nItems < 3

----------------------------------------------------------------------------
(* C18 *)

\* call a was a Solve that returned a path, call b a later Solve from a state
\* strictly inside that path to the same end, and no Reset came between
Waypoint(a, b) ==
    /\ mp.hasCache /\ a < b
    /\ hist[a].op = "Solve" /\ hist[a].outcome \in {"found", "cached"}
    /\ hist[b].op = "Solve" /\ hist[b].endNode = hist[a].endNode
    /\ \E i \in 2..(Len(hist[a].path) - 1) : hist[b].startNode = hist[a].path[i]
    /\ \A k \in (a + 1)..(b - 1) : hist[k].op # "Reset"

\* call b was answered by replay: no callback, the frame as it was, one hit more
Replayed(b) ==
    /\ hist[b].outcome = "cached"
    /\ hist[b].estCalls = 0 /\ hist[b].adjCalls = 0
    /\ hist[b].frame = hist[b].pre.frame
    /\ hist[b].hit = hist[b].pre.hit + 1 /\ hist[b].miss = hist[b].pre.miss
    /\ ValidPath(hist[b].path, hist[b].startNode, hist[b].endNode)

\* the path of call a was in the path cache when the call returned
PathStored(a) ==
    hist[a].outcome = "cached"
        \/ hist[a].pre.nItems + Len(hist[a].path) <= PathCacheCap

\* C18 as stated: with the path cache below its load cap, after a Solve(s0, sk)
\* that returned [s0..sk], a later Solve(si, sk) from an intermediate waypoint,
\* with no Reset between, is answered by replay: a path from si to sk of
\* minimum cost, no callback, the frame unchanged, hit incremented.
C18_WaypointReplayed ==
    \A a, b \in 1..Len(hist) :
        (Waypoint(a, b) /\ hist[a].pre.nItems < PathCacheCap)
        => /\ Replayed(b)
           /\ PathCost(hist[b].path, 1) = dist[hist[b].startNode][hist[b].endNode]

\* C18 amended: the same when the path of the first Solve fitted under the load
\* cap (nItems + length of the path at most 3/4 of the slots) or was itself a
\* replay; the path returned is of minimum cost when the heuristic is
\* consistent.
C18_StoredWaypointReplayed ==
    \A a, b \in 1..Len(hist) :
        (Waypoint(a, b) /\ PathStored(a))
        => /\ Replayed(b)
           /\ (Consistent(hist[b].endNode) /\ FiniteCosts)
                => PathCost(hist[b].path, 1) = dist[hist[b].startNode][hist[b].endNode]

\* a search returned a path of four states, another call followed, and then a
\* Solve from the third state of the path was replayed
C18_Witness ==
    /\ Returned /\ Len(hist) = 3 /\ Waypoint(1, 3) /\ PathStored(1)
    /\ hist[1].outcome = "found" /\ Len(hist[1].path) = 4
    /\ hist[3].startNode = hist[1].path[3]
    /\ hist[3].startNode # hist[2].startNode
    /\ Replayed(3)

----------------------------------------------------------------------------
(* C19 *)

\* the records of the tree under root
RECURSIVE TreeNodes(_, _, _)
TreeNodes(rec, root, fuel) ==
    IF root = NULL \/ fuel = 0 THEN {}
    ELSE {root} \cup TreeNodes(rec, rec[root].child[1], fuel - 1)
                \cup TreeNodes(rec, rec[root].child[2], fuel - 1)

\* the records the hash table reaches
HashRecords(m) ==
    UNION {TreeNodes(m.rec, m.hashTable[k], Len(m.rec)) : k \in 0..(HashSize - 1)}

\* one record per state, each found by the walk for its state, and no record
\* allocated that the table does not reach
OnePerState(m) ==
    /\ \A i, j \in HashRecords(m) : m.rec[i].state = m.rec[j].state => i = j
    /\ \A i \in HashRecords(m) : FetchPathNode(m, m.rec[i].state) = i
    /\ \A i \in HashRecords(m) : m.rec[i].state \in States
    /\ Cardinality(HashRecords(m)) = m.nAllocated
    /\ HashRecords(m) \cap Range(m.freeList) = {}

\* the arguments GetPathNode is tried with: costFromStart, estToGoal, parent
TryArgs ==
    { [c |-> 0, e |-> 3, parent |-> NULL],
      [c |-> 3, e |-> FLT_MAX, parent |-> 1] }

\* record n given the fields of Init
Initialised(n, _frame, _state, _costFromStart, _estToGoal, _parent) ==
    [n EXCEPT !.state = _state, !.costFromStart = _costFromStart,
              !.estToGoal = _estToGoal,
              !.totalCost = IF _costFromStart < FLT_MAX /\ _estToGoal < FLT_MAX
                            THEN _costFromStart + _estToGoal ELSE FLT_MAX,
              !.parent = _parent, !.frame = _frame,
              !.inOpen = FALSE, !.inClosed = FALSE]

\* g is what GetPathNode returned in m, where the state had the record root
GetPathNodeServes(m, g, root, _frame, _state, c, e, _parent) ==
    IF root # NULL /\ m.rec[root].frame = _frame
    THEN g.node = root /\ g.m = m
    ELSE IF root # NULL
    THEN /\ g.node = root
         /\ g.m = [m EXCEPT !.rec[root] = Initialised(m.rec[root], _frame, _state, c, e, _parent)]
         /\ g.m.nAllocated = m.nAllocated
         /\ g.m.rec[root].cacheIndex = m.rec[root].cacheIndex
         /\ g.m.rec[root].numAdjacent = m.rec[root].numAdjacent
    ELSE /\ g.node \notin HashRecords(m)
         /\ g.m.nAllocated = m.nAllocated + 1
         /\ g.m.rec[g.node] = Initialised(PathNodeClear, _frame, _state, c, e, _parent)
         /\ FetchPathNode(g.m, _state) = g.node
         /\ HashRecords(g.m) = HashRecords(m) \cup {g.node}
         /\ OnePerState(g.m)

GetPathNodeSound(m) ==
    \A _state \in States, _frame \in {m.frame, m.frame + 1}, a \in TryArgs :
        GetPathNodeServes(m, GetPathNode(m, _frame, _state, a.c, a.e, a.parent),
                          FetchPathNode(m, _state), _frame, _state, a.c, a.e, a.parent)

\* C19: between two Resets the hash table reaches at most one record per
\* state; GetPathNode for a state whose record has the current frame returns
\* it unchanged, whatever the arguments; for a state whose record is stale it
\* returns the same record initialised in place with the given fields, the new
\* frame and both flags cleared, nAllocated and the adjacency locator as they
\* were; only a state with no record since the last Reset allocates.
C19_OneRecordPerState ==
    /\ OnePerState(mp)
    /\ GetPathNodeSound([mp EXCEPT !.failed = FALSE])

\* a later search is under way over records of an earlier one: a stale record
\* is closed and has its neighbours in the adjacency cache, a bucket holds a
\* tree of two records, and a state has no record yet
C19_Witness ==
    /\ mp.pc = "solve" /\ Len(hist) >= 1
    /\ \E i \in HashRecords(mp) :
          /\ mp.rec[i].frame < mp.frame /\ mp.rec[i].inClosed
          /\ mp.rec[i].cacheIndex >= 0 /\ mp.rec[i].numAdjacent > 0
    /\ \E i \in HashRecords(mp) : mp.rec[i].child # <<NULL, NULL>>
    /\ \E s \in States : FetchPathNode(mp, s) = NULL

----------------------------------------------------------------------------
(* C20 *)

\* the neighbour list nc as states and costs
AsStateCost(m, nc) ==
    [k \in 1..Len(nc) |-> [state |-> m.rec[nc[k].node].state, cost |-> nc[k].cost]]

\* the neighbour list of record i is known to be empty, or is in the cache
ListKnown(m, i) == m.rec[i].numAdjacent = 0 \/ m.rec[i].cacheIndex >= 0

\* the list adj does not fit into what is left of the adjacency cache
NoRoom(m, adj) == Len(adj) + Len(m.cache) > m.cacheCap

\* r is what GetNodeNeighbors returned for record i with the neighbours adj:
\* the same states and costs; from a known list without the callback; else by
\* one callback, the list stored where there is room and left out where not
NeighborsServed(m, r, i, adj) ==
    /\ ~r.m.failed
    /\ AsStateCost(r.m, r.nc) = adj
    /\ r.m.rec[i].numAdjacent = Len(adj)
    /\ IF ListKnown(m, i)
       THEN /\ r.m.adjCalls = m.adjCalls
            /\ r.m.cache = m.cache
            /\ r.m.rec[i].cacheIndex = m.rec[i].cacheIndex
       ELSE /\ r.m.adjCalls = m.adjCalls + 1
            /\ IF NoRoom(m, adj)
               THEN r.m.cache = m.cache /\ r.m.rec[i].cacheIndex < 0
               ELSE IF adj = <<>> THEN r.m.cache = m.cache
               ELSE /\ r.m.rec[i].cacheIndex = Len(m.cache)
                    /\ Len(r.m.cache) = Len(m.cache) + Len(adj)
                    /\ SubSeq(r.m.cache, 1, Len(m.cache)) = m.cache

\* asked once more, a list that did not fit takes the callback again
AskedAgain(r, i) ==
    ListKnown(r.m, i) \/ GetNodeNeighbors(r.m, i).m.adjCalls = r.m.adjCalls + 1

NeighborsServedTwice(m, r, i, adj) == NeighborsServed(m, r, i, adj) /\ AskedAgain(r, i)

NeighborsSound(m) ==
    \A i \in HashRecords(m) :
        NeighborsServedTwice(m, GetNodeNeighbors(m, i), i, AdjacentCost(m.rec[i].state))

\* the step is a Reset
IsReset == Len(hist') = Len(hist) + 1 /\ hist'[Len(hist')].op = "Reset"

\* but for Reset, a known list stays known, at the same place of a cache
\* that only grows
ListsKept ==
    ~IsReset =>
        /\ SubSeq(mp'.cache, 1, Len(mp.cache)) = mp.cache
        /\ \A i \in HashRecords(mp) :
              ListKnown(mp, i) =>
                  /\ i \in HashRecords(mp')
                  /\ mp'.rec[i].state = mp.rec[i].state
                  /\ mp'.rec[i].numAdjacent = mp.rec[i].numAdjacent
                  /\ mp'.rec[i].cacheIndex = mp.rec[i].cacheIndex

\* mu differs from mp by an adjacency cache that holds every list
Unbounded == mu.allocate = mp.allocate /\ mu.cacheCap >= 4 * Len(StateSeq)

\* the call that has returned gave what it gives with the unbounded cache
SameResult ==
    (Returned /\ Unbounded) =>
        /\ Last.path = mu.path /\ Last.near = mu.near /\ Last.outcome = mu.outcome
        /\ Last.estCalls = mu.estCalls /\ Last.adjCalls >= mu.adjCalls

\* C20: between two Resets GetNodeNeighbors yields for a state the neighbours
\* and costs AdjacentCost reports, from the cache or from the callback; no
\* callback for a state whose list is empty or stored; a list that finds no
\* room (nNodes + cacheSize > cacheCap) is not stored, the cache stays as it
\* is and the callback is made on each later need; the result of the search
\* is that of an engine with an unbounded cache.
C20_NeighborsAsReported ==
    /\ [](NeighborsSound([mp EXCEPT !.failed = FALSE]) /\ SameResult)
    /\ [][ListsKept]_vars

\* an engine whose adjacency cache is full has one list stored, one list known
\* empty and one list that found no room; its Solve made more callbacks than
\* the twin with the unbounded cache and returned the same path of three states
C20_Witness ==
    /\ Returned /\ Unbounded /\ Last.outcome = "found" /\ Len(Last.path) >= 3
    /\ Last.path = mu.path /\ Last.adjCalls > mu.adjCalls
    /\ \E i, j \in HashRecords(mp) :
          /\ mp.rec[i].cacheIndex >= 0
          /\ mp.rec[j].numAdjacent > 0 /\ mp.rec[j].cacheIndex < 0
          /\ NoRoom(mp, AdjacentCost(mp.rec[j].state))
    /\ \E k \in 1..Len(hist) : hist[k].outcome = "nopath" /\ hist[k].adjCalls = 1

----------------------------------------------------------------------------
(* C21 *)

\* no Reset has been called
NoReset == mp.op # "Reset" /\ \A k \in 1..Len(hist) : hist[k].op # "Reset"

\* the records on the open list, and the parents of the open and closed
\* records, carry the current frame
FrameRead(m) ==
    /\ \A i \in Range(m.open) : m.rec[i].frame = m.frame
    /\ \A i \in CurrentRecords(m) :
          ((m.rec[i].inOpen \/ m.rec[i].inClosed) /\ m.rec[i].parent # NULL)
              => m.rec[m.rec[i].parent].frame = m.frame

\* r is what GetNodeNeighbors returned in m: every neighbour carries the
\* current frame, and one that was stale in m has infinite costs, no parent
\* and neither flag (its links into the bucket's tree aside)
NeighborsFresh(m, r) ==
    \A k \in 1..Len(r.nc) :
        /\ r.m.rec[r.nc[k].node].frame = m.frame
        /\ (r.nc[k].node \in 1..Len(m.rec)
               /\ FetchPathNode(m, r.m.rec[r.nc[k].node].state) = r.nc[k].node
               /\ m.rec[r.nc[k].node].frame # m.frame)
           => [r.m.rec[r.nc[k].node] EXCEPT !.child = m.rec[r.nc[k].node].child] =
                  Initialised(m.rec[r.nc[k].node], m.frame,
                              m.rec[r.nc[k].node].state, FLT_MAX, FLT_MAX, NULL)

\* the pass of the loop that comes next reads current records only
PassFresh(m, p) ==
    /\ m.rec[p.node].frame = m.frame
    /\ NeighborsFresh(p.m, GetNodeNeighbors(ClosedSetAdd(p.m, p.node), p.node))

ReadsFresh(m) ==
    (Searching(m) /\ m.open # <<>>) => FrameRead(m) /\ PassFresh(m, Pop(m))

\* the step enters a search
Enters == mp.pc = "idle" /\ Searching(mp')

\* the start record when the search is entered: of the current frame, without
\* parent, open and not closed, at cost c from the start
StartFresh(c) ==
    Enters =>
        /\ mp'.open = <<FetchPathNode(mp', mp'.startNode)>>
        /\ mp'.rec[Head(mp'.open)].frame = mp'.frame
        /\ mp'.frame = mp.frame + 1
        /\ mp'.rec[Head(mp'.open)].parent = NULL
        /\ mp'.rec[Head(mp'.open)].inOpen /\ ~mp'.rec[Head(mp'.open)].inClosed
        /\ mp'.rec[Head(mp'.open)].costFromStart = c

\* C21 as stated: in every search of a sequence of calls without Reset a
\* record that is read carries the current frame; a record obtained as start
\* or as a neighbour, from the callback or from the adjacency cache, that
\* carries an older frame is first initialised again with infinite costs, no
\* parent and cleared flags.
C21_StaleInitInfinite ==
    /\ [](NoReset => ReadsFresh(mp))
    /\ [][NoReset => StartFresh(FLT_MAX)]_vars

\* C21 amended: the same, but the start record is initialised with cost 0 from
\* the start (and the estimate toward the end, 0 in SolveForNearStates); it is
\* the neighbours that get infinite costs.
C21_StaleInitFresh ==
    /\ [](NoReset => ReadsFresh(mp))
    /\ [][NoReset => StartFresh(0)]_vars

\* in a later search without Reset between, the record popped next has a
\* neighbour list in the adjacency cache that names a record left closed by
\* the search before, and the start record was itself such a record
C21_Witness ==
    /\ NoReset /\ Len(hist) >= 1 /\ Searching(mp) /\ mp.open # <<>>
    /\ mp.rec[Head(mp.open)].cacheIndex >= 0
    /\ \E k \in 1..mp.rec[Head(mp.open)].numAdjacent :
          /\ mp.rec[mp.cache[mp.rec[Head(mp.open)].cacheIndex + k].node].frame < mp.frame
          /\ mp.rec[mp.cache[mp.rec[Head(mp.open)].cacheIndex + k].node].inClosed
          /\ mp.rec[mp.cache[mp.rec[Head(mp.open)].cacheIndex + k].node].costFromStart < FLT_MAX
    /\ mp.rec[FetchPathNode(mp, mp.startNode)].numAdjacent > 0

----------------------------------------------------------------------------
(* C22 *)

\* the states that start reaches along edges of finite cost, start included
Reach(start) == {s \in States : dist[start][s] < FLT_MAX}

\* the records the search has popped and expanded, and those it holds open
ClosedNow(m) == {i \in CurrentRecords(m) : m.rec[i].inClosed}

OpenNow(m) == {i \in CurrentRecords(m) : m.rec[i].inOpen}

\* closed and open records are different records of states start reaches, so
\* the pops made and still to make are no more than those states
PopsBounded(m) ==
    Searching(m) =>
        /\ ClosedNow(m) \cap OpenNow(m) = {}
        /\ {m.rec[i].state : i \in ClosedNow(m) \cup OpenNow(m)} \subseteq Reach(m.startNode)
        /\ Cardinality(ClosedNow(m)) + Len(m.open) <= Cardinality(Reach(m.startNode))

\* one pass of a loop that goes on: the record popped was open and is closed
\* now, the closed records stay closed and off the open list, and a record
\* pushed was neither open nor closed before
OncePerRecord ==
    (Searching(mp) /\ Searching(mp')) =>
        /\ mp.open # <<>>
        /\ Head(mp.open) \in OpenNow(mp)
        /\ ClosedNow(mp') = ClosedNow(mp) \cup {Head(mp.open)}
        /\ ClosedNow(mp') \cap Range(mp'.open) = {}
        /\ Pushed \cap (ClosedNow(mp) \cup OpenNow(mp)) = {}

\* a search that has been entered returns
Terminates == (mp.pc # "idle") ~> (mp.pc = "idle" /\ mp.outcome # "hang")

\* C22: within one Solve or SolveForNearStates call on a finite graph with
\* non-negative costs every record is pushed at most once and popped at most
\* once, a closed record is never pushed again even when its cost is lowered,
\* the pops are no more than the states reachable from start, and the search
\* ends.
C22_OncePushedOncePopped ==
    /\ [](PopsBounded(mp))
    /\ [][OncePerRecord]_vars
    /\ Terminates

\* a closed record has had its cost lowered and stayed closed: a neighbour it
\* relaxed when it was expanded costs more than the way through it does now
C22_Witness ==
    /\ mp.pc = "solve" /\ FiniteCosts
    /\ \E c \in ClosedNow(mp), d \in ClosedNow(mp) \cup OpenNow(mp) :
          /\ FiniteEdge(wt, mp.rec[c].state, mp.rec[d].state)
          /\ mp.rec[d].costFromStart >
                 mp.rec[c].costFromStart + wt[mp.rec[c].state][mp.rec[d].state]

----------------------------------------------------------------------------
(* C23 *)

\* the table holds an entry, positive or negative, for (start, end)
EntryPresent(m, start, end) ==
    \E i \in Entries(m) : m.mem[i].start = start /\ m.mem[i].end = end

SameCounters == mp'.hit = mp.hit /\ mp'.miss = mp.miss

\* the step a call enters the engine with
Entering(op) == mp.pc = "idle" /\ ncalls' = ncalls + 1 /\ mp'.op = op

\* the entry of a Solve call with a path cache counts one hit or one miss, by
\* whether the table held the pair; every other step of a Solve call and every
\* step of SolveForNearStates leaves the counters as they are
CountsOnce ==
    /\ (Entering("Solve") /\ mp.hasCache /\ mp'.startNode # mp'.endNode) =>
           IF EntryPresent(mp, mp'.startNode, mp'.endNode)
           THEN mp'.hit = mp.hit + 1 /\ mp'.miss = mp.miss
           ELSE mp'.miss = mp.miss + 1 /\ mp'.hit = mp.hit
    /\ (Entering("Solve") /\ mp'.startNode = mp'.endNode) => SameCounters
    /\ Entering("Near") => SameCounters
    /\ mp.pc # "idle" => SameCounters

\* C23: with caching enabled every Solve(start, end) with start # end changes
\* the counters of the path cache by one increment in all: hit if an entry,
\* positive or negative, for (start, end) was present when the call began,
\* miss otherwise; Solve with start = end and SolveForNearStates change
\* neither counter.
C23_OneCountPerSolve == [][CountsOnce]_vars

\* a miss that stored a negative entry, a hit on that negative entry followed
\* by a full search, and a SolveForNearStates call that left the counters
C23_Witness ==
    /\ Returned /\ mp.hasCache /\ Len(hist) = 3
    /\ hist[1].op = "Solve" /\ hist[1].outcome = "nopath"
    /\ hist[1].miss = hist[1].pre.miss + 1
    /\ hist[2].op = "Solve" /\ hist[2].outcome = "nopath"
    /\ hist[2].startNode = hist[1].startNode /\ hist[2].endNode = hist[1].endNode
    /\ hist[2].hit = hist[2].pre.hit + 1 /\ hist[2].adjCalls > 0
    /\ hist[3].op = "Near"
    /\ hist[3].hit = hist[2].hit /\ hist[3].miss = hist[2].miss

----------------------------------------------------------------------------
(* C24 *)

\* no state twice
Simple(path) == \A i, j \in 1..Len(path) : path[i] = path[j] => i = j

\* a path from startNode to endNode along edges of finite cost, no state twice
SimplePath(path, startNode, endNode) ==
    ValidPath(path, startNode, endNode) /\ Simple(path)

\* what Solve returned, from a search or from the path cache
ReturnedPathSound ==
    (Returned /\ Last.op = "Solve" /\ Last.path # <<>>) =>
        SimplePath(Last.path, Last.startNode, Last.endNode)

\* the parent links from record i: they end, at the record of the start state,
\* pass no record twice, stay among the open and closed records of this
\* search, and each link is an edge of finite cost
LeadsToStart(m, i, chain) ==
    /\ chain # <<>>
    /\ Simple(chain)
    /\ Range(chain) \subseteq ClosedNow(m) \cup OpenNow(m)
    /\ chain[Len(chain)] = FetchPathNode(m, m.startNode)
    /\ \A k \in 1..(Len(chain) - 1) :
          FiniteEdge(wt, m.rec[chain[k + 1]].state, m.rec[chain[k]].state)

ParentsSound(m) ==
    Searching(m) =>
        \A i \in ClosedNow(m) \cup OpenNow(m) :
            LeadsToStart(m, i, ParentChain(m.rec, i, Cardinality(CurrentRecords(m)) + 1))

\* C24: every non-empty sequence Solve(start, end) returns, from a full search
\* or from the path cache, begins with start, ends with end, holds no state
\* twice, and each consecutive pair is an outgoing edge of finite cost; during
\* a search the parent links of the touched records form no cycle and lead
\* from every open or closed record back to the start record.
C24_PathsAndParentsSound == ReturnedPathSound /\ ParentsSound(mp)

\* after a searched path and a replayed one of three states or more, a search
\* holds a record two parent links away from the start record
C24_Witness ==
    /\ Searching(mp)
    /\ \E a, b \in 1..Len(hist) :
          /\ hist[a].outcome = "found" /\ Len(hist[a].path) >= 3
          /\ hist[b].outcome = "cached" /\ Len(hist[b].path) >= 3
    /\ \E i \in ClosedNow(mp) \cup OpenNow(mp) :
          Len(ParentChain(mp.rec, i, Cardinality(CurrentRecords(mp)) + 1)) >= 3

----------------------------------------------------------------------------
(* C25 *)

\* an engine as the constructor leaves it, of the build of mp, without the
\* path cache
FreshEngine == NewMicroPather(mp.allocate, mp.cacheCap \div mp.allocate, FALSE)

\* the call c made on engine m and run until it returns
RunCall(m, c) ==
    IF c.op = "Solve" THEN RunSolve(SolveBegin(m, c.startNode, c.endNode))
    ELSE RunNear(NearBegin(m, c.startNode, c.maxCost))

\* call c returned what engine m has returned
SameAnswer(c, m) ==
    c.path = m.path /\ c.near = m.near /\ c.outcome = m.outcome

\* C25: with caching disabled the result of Solve(start, end) and of
\* SolveForNearStates(start, maxCost) does not depend on the calls made before:
\* after any sequence of Solve, SolveForNearStates and Reset on the same
\* engine the call returns what it returns on a freshly constructed engine.
C25_HistoryIndependent ==
    (Returned /\ ~mp.hasCache /\ Last.op \in {"Solve", "Near"}) =>
        SameAnswer(Last, RunCall(FreshEngine, Last))

\* a third call that searched on records, cached neighbour lists and flags
\* two earlier searches left behind
C25_Witness ==
    /\ Returned /\ ~mp.hasCache /\ Len(hist) = 3
    /\ hist[1].op = "Solve" /\ hist[1].outcome = "found"
    /\ hist[2].op = "Near" /\ Len(hist[2].near) >= 3
    /\ Last.op = "Solve" /\ Last.outcome = "found" /\ Len(Last.path) >= 3
    /\ Last.startNode # hist[1].startNode
    /\ Last.adjCalls = 0 /\ mp.cache # <<>>

====
